---- MODULE Spec2Model ----
(***************************************************************************)
(* PlantTrackR: the Plant Registry (PlantManager) of the bundled           *)
(* application script, with the browser's localStorage and the rendered    *)
(* plant cards.  One action per user-interface handler; the registry       *)
(* methods are operators from a registry state to the state they leave.    *)
(***************************************************************************)
EXTENDS Integers, Sequences, FiniteSets, TLC

VARIABLES
    plants,          \* PlantManager.plants: sequence of Plant objects
    archivedPlants,  \* PlantManager.archivedPlants
    selectedPlants,  \* PlantManager.selectedPlants: Set of plant ids
    expandedEvents,  \* PlantManager.expandedEvents: plant id -> boolean
    currentTab,      \* PlantManager.currentTab
    store,           \* localStorage: plants, archivedPlants, expandedEvents,
                     \* selectedPlants, quickCards
    cards,           \* the rendered .plant-card elements of #plant-list
    exported,        \* the text of the last exported plants.json file
    uuids,           \* how many identifiers generateUUID has produced
    quickCards,      \* QuickCardManager.quickCards: sequence of QuickCard objects
    optimizedQuickCards, \* this.quickCards of the QuickCardManager of
                     \* js/chartFix.js, <<>> while the page has none
    compressed,      \* the cells of localStorage that hold a text kept character
                     \* by character (what dataUtils.optimizedStorage wrote, as
                     \* base64 digits), with that text
    reading,         \* the text of the file a FileReader of the import button is
                     \* reading, [kind |-> "none"] when none is
    navigating,      \* window.location.reload() was called and the page has
                     \* not been left yet
    quickCardList,   \* the rows of #quick-card-list: the manager whose
                     \* renderQuickCards built them ("" for none yet) and, row
                     \* by row, the place in that manager's this.quickCards of
                     \* the card the row's handlers close over, and which of
                     \* the pin and unpin buttons the row got
    locale,          \* the default locale of the runtime
    instance,        \* the static fields PlantManager.instance,
                     \* QuickCardManager.instance and the instance field of the
                     \* QuickCardManager class of js/chartFix.js: the number of
                     \* the object each holds, 0 while it is undefined
    last             \* the last call observed: its name and what it returned

vars == <<plants, archivedPlants, selectedPlants, expandedEvents, currentTab,
          store, cards, exported, uuids, quickCards, optimizedQuickCards, compressed,
          reading, navigating, quickCardList, locale, instance, last>>

-----------------------------------------------------------------------------
(* Bounds of the model *)

\* identifiers generateUUID may produce in one run of Spec
MaxPlants == 2
\* ... of SpecTabs
MaxTabPlants == 2
\* ... of SpecImport
MaxImportPlants == 2
\* ... of SpecBulk
MaxBulkPlants == 2
\* ... of SpecMeasure
MaxMeasurePlants == 2
\* plants the archived collection may hold when archivePlant is called
MaxArchived == 1
\* plants the active collection may hold when a plant is unarchived
MaxActive == 2
\* events and measurements the active plants may hold together
MaxData == 2
\* identifiers generateUUID may produce in one run of SpecPhase
MaxPhasePlants == 1
\* identifiers generateUUID may produce in one run of SpecStorage
MaxStoragePlants == 1
\* identifiers generateUUID may produce in one run of SpecCatalog
MaxCatalogIds == 3
\* identifiers generateUUID may produce in one run of SpecDrop
MaxDropIds == 3
\* plants SpecDrop may add
MaxDropPlants == 1
\* drop listeners a plant card may carry when the quick cards are rendered again
MaxDropListeners == 4
\* identifiers generateUUID may produce in one run of SpecDate
MaxDatePlants == 1
\* identifiers generateUUID may produce in one run of SpecCalendar
MaxCalendarPlants == 2
\* identifiers generateUUID may produce in one run of SpecExpand
MaxExpandPlants == 1
\* identifiers generateUUID may produce in one run of SpecSingleton
MaxSingletonPlants == 2
\* characters of a string passed to optimizedStorage.setItem
MaxTextLen == 2
\* the largest number passed to it, alone or in an array or object
MaxNumber == 1
\* elements of an array passed to it
MaxArrayLen == 1
\* identifiers generateUUID may produce in one run of SpecRead
MaxReadPlants == 2
\* identifiers generateUUID may produce in one run of SpecIndex
MaxIndexPlants == 2
\* identifiers generateUUID may produce in one run of SpecFrame
MaxFramePlants == 1
\* identifiers generateUUID may produce in one run of SpecFull
MaxFullPlants == 3
\* PlantManager objects one page of SpecSingleton may hold
MaxInstances == 2
\* events the plants of SpecExpand may hold, active and archived together
MaxExpandData == 1
\* identifiers generateUUID may produce in one run of SpecRoundTrip
MaxRoundTripPlants == 1
\* identifiers generateUUID may produce in one run of SpecEvents
MaxEventsPlants == 1

-----------------------------------------------------------------------------
(* Values *)

\* the value of a property that is absent from an object (JavaScript undefined)
UNDEF == "<undefined>"
\* the element null of a parsed JSON array
JNull == [null |-> TRUE]
\* a number that is not a number
NaN == -1
\* what new Date().toISOString().split('T')[0] yields during the run
Today == "2024-06-01"

PLANT_PHASES ==
    <<"Seedling", "Mutter", "Vegetative", "Flowering", "Drying", "Curing", "Harvested">>

\* String.prototype.toLowerCase on the phase names
toLowerCase(phase) ==
    CASE phase = "Seedling"   -> "seedling"
      [] phase = "Mutter"     -> "mutter"
      [] phase = "Vegetative" -> "vegetative"
      [] phase = "Flowering"  -> "flowering"
      [] phase = "Drying"     -> "drying"
      [] phase = "Curing"     -> "curing"
      [] phase = "Harvested"  -> "harvested"
      [] OTHER                -> phase

\* the default of the icon parameter: the notepad sign, a string of one
\* character (code point U+1F4DD)
DefaultIcon == "notepad"
NotepadSign == "U+1F4DD"

\* the characters of the strings the model passes to parseDate and of those
\* it writes into the quick cards
Chars(str) ==
    CASE str = ""           -> <<>>
      [] str = DefaultIcon  -> <<NotepadSign>>
      [] str = "a"          -> <<"a">>
      [] str = "b"          -> <<"b">>
      [] str = "fed"        -> <<"f","e","d">>
      [] str = "Fed"        -> <<"F","e","d">>
      [] str = "Watered"    -> <<"W","a","t","e","r","e","d">>
      [] str = "details"    -> <<"d","e","t","a","i","l","s">>
      [] str = "water"      -> <<"w","a","t","e","r">>
      [] str = "2024-06-01" -> <<"2","0","2","4","-","0","6","-","0","1">>
      [] str = "2024-02-29" -> <<"2","0","2","4","-","0","2","-","2","9">>
      [] str = "2023-02-29" -> <<"2","0","2","3","-","0","2","-","2","9">>
      [] str = "2024-02-30" -> <<"2","0","2","4","-","0","2","-","3","0">>
      [] str = "2024-13-01" -> <<"2","0","2","4","-","1","3","-","0","1">>
      [] str = "2024-00-10" -> <<"2","0","2","4","-","0","0","-","1","0">>
      [] str = "2024-06-00" -> <<"2","0","2","4","-","0","6","-","0","0">>
      [] str = "2024-06"    -> <<"2","0","2","4","-","0","6">>
      [] str = "bad-date"   -> <<"b","a","d","-","d","a","t","e">>
      [] str = "2024-1-5"   -> <<"2","0","2","4","-","1","-","5">>
      [] str = " 2024-06-01" -> <<" ","2","0","2","4","-","0","6","-","0","1">>
      [] str = "2024-06-1e0" -> <<"2","0","2","4","-","0","6","-","1","e","0">>
      [] str = "2024--01"   -> <<"2","0","2","4","-","-","0","1">>
      [] str = "0050-01-01" -> <<"0","0","5","0","-","0","1","-","0","1">>
      [] str = "1999-12-31" -> <<"1","9","9","9","-","1","2","-","3","1">>
      [] str = "2024-05-31" -> <<"2","0","2","4","-","0","5","-","3","1">>
      [] str = "2024-06-02" -> <<"2","0","2","4","-","0","6","-","0","2">>
      [] str = "2024-06-02T00:00:00.000Z" ->
             <<"2","0","2","4","-","0","6","-","0","2","T",
               "0","0",":","0","0",":","0","0",".","0","0","0","Z">>
      [] str = "2024-06-01T22:00:00.000Z" ->
             <<"2","0","2","4","-","0","6","-","0","1","T",
               "2","2",":","0","0",":","0","0",".","0","0","0","Z">>
      [] str = "12"         -> <<"1","2">>
      [] str = "0"          -> <<"0">>
      [] str = "abc"        -> <<"a","b","c">>
      [] str = "Infinity"   -> <<"I","n","f","i","n","i","t","y">>

Digits == {"0","1","2","3","4","5","6","7","8","9"}

DigitVal(c) ==
    CASE c = "0" -> 0 [] c = "1" -> 1 [] c = "2" -> 2 [] c = "3" -> 3 [] c = "4" -> 4
      [] c = "5" -> 5 [] c = "6" -> 6 [] c = "7" -> 7 [] c = "8" -> 8 [] c = "9" -> 9

RECURSIVE DecVal(_)
\* the value of a sequence of decimal digits
DecVal(cs) ==
    IF cs = <<>> THEN 0
    ELSE 10 * DecVal(SubSeq(cs, 1, Len(cs) - 1)) + DigitVal(cs[Len(cs)])

RECURSIVE Pow10(_)
Pow10(n) == IF n = 0 THEN 1 ELSE 10 * Pow10(n - 1)

RECURSIVE split(_, _)
\* String.prototype.split(sep): the segments between the separators
split(cs, sep) ==
    IF \A i \in 1..Len(cs) : cs[i] # sep THEN <<cs>>
    ELSE LET i == CHOOSE j \in 1..Len(cs) :
                      cs[j] = sep /\ \A k \in 1..(j - 1) : cs[k] # sep
         IN  <<SubSeq(cs, 1, i - 1)>> \o split(SubSeq(cs, i + 1, Len(cs)), sep)

RECURSIVE trim(_)
\* String.prototype.trim, as ToNumber applies it to a string
trim(cs) ==
    IF cs # <<>> /\ cs[1] = " " THEN trim(Tail(cs))
    ELSE IF cs # <<>> /\ cs[Len(cs)] = " " THEN trim(SubSeq(cs, 1, Len(cs) - 1))
    ELSE cs

AllDigits(cs) == \A i \in 1..Len(cs) : cs[i] \in Digits

\* ToNumber of a string of digits, blanks and letters (what isNaN and the Date
\* constructor apply to a segment): the empty string is 0, a decimal literal
\* with an optional exponent is its value, anything else is NaN
ToNumber(seg) ==
    LET t == trim(seg)
        es == {i \in 1..Len(t) : t[i] = "e"}
    IN  IF t = <<>> THEN 0
        ELSE IF AllDigits(t) THEN DecVal(t)
        ELSE IF /\ Cardinality(es) = 1
                /\ LET i == CHOOSE j \in es : TRUE
                   IN  /\ i > 1 /\ i < Len(t)
                       /\ AllDigits(SubSeq(t, 1, i - 1))
                       /\ AllDigits(SubSeq(t, i + 1, Len(t)))
             THEN LET i == CHOOSE j \in es : TRUE
                  IN  DecVal(SubSeq(t, 1, i - 1)) * Pow10(DecVal(SubSeq(t, i + 1, Len(t))))
        ELSE NaN

RECURSIVE DigitPrefix(_)
DigitPrefix(cs) ==
    IF cs # <<>> /\ cs[1] \in Digits THEN <<cs[1]>> \o DigitPrefix(Tail(cs)) ELSE <<>>

RECURSIVE SkipBlanks(_)
SkipBlanks(cs) == IF cs # <<>> /\ cs[1] = " " THEN SkipBlanks(Tail(cs)) ELSE cs

\* parseInt of a string: the longest run of digits after leading blanks
parseInt(seg) ==
    LET p == DigitPrefix(SkipBlanks(seg))
    IN  IF p = <<>> THEN NaN ELSE DecVal(p)

IsLeap(y) == (y % 4 = 0 /\ y % 100 # 0) \/ y % 400 = 0

DaysInMonth(y, m) ==
    IF m = 2 THEN (IF IsLeap(y) THEN 29 ELSE 28)
    ELSE IF m \in {4, 6, 9, 11} THEN 30 ELSE 31

RECURSIVE NormalizeDate(_, _, _)
\* the local date new Date(year, monthIndex, day) denotes: months outside
\* 0..11 and days outside the month roll over into the neighbouring ones
NormalizeDate(y, mi, d) ==
    IF mi < 0 THEN NormalizeDate(y - 1, mi + 12, d)
    ELSE IF mi > 11 THEN NormalizeDate(y + 1, mi - 12, d)
    ELSE IF d < 1 THEN
        LET py == IF mi = 0 THEN y - 1 ELSE y
            pm == IF mi = 0 THEN 11 ELSE mi - 1
        IN  NormalizeDate(py, pm, d + DaysInMonth(py, pm + 1))
    ELSE IF d > DaysInMonth(y, mi + 1) THEN
        NormalizeDate(y, mi + 1, d - DaysInMonth(y, mi + 1))
    ELSE [year |-> y, month |-> mi, date |-> d]

\* new Date(year, monthIndex, day): a year in 0..99 means 1900 + year
NewDate(y, mi, d) == NormalizeDate(IF y \in 0..99 THEN 1900 + y ELSE y, mi, d)

\* PlantManager.parseDate: <<>> for null, else <<the Date>>
parseDate(dateStr) ==
    IF dateStr = "" \/ dateStr = UNDEF THEN <<>>
    ELSE LET parts == split(Chars(dateStr), "-")
         IN  IF Len(parts) # 3 THEN <<>>
             ELSE LET year == parts[1]
                      month == parts[2]
                      day == parts[3]
                  IN  IF ToNumber(year) = NaN \/ ToNumber(month) = NaN \/ ToNumber(day) = NaN
                      THEN <<>>
                      ELSE LET date == NewDate(ToNumber(year), ToNumber(month) - 1,
                                               ToNumber(day))
                           IN  IF \/ date.year # parseInt(year)
                                  \/ date.month # parseInt(month) - 1
                                  \/ date.date # parseInt(day)
                               THEN <<>>
                               ELSE <<date>>

-----------------------------------------------------------------------------
(* Numbers entered at a prompt *)

\* the number Infinity (greater than every height the model enters)
Infinity == Pow10(9)
\* JSON null standing where a number was
NullNumber == -2
\* JSON null standing where a string was (what prompt returns when cancelled)
NullString == "<null>"

\* parseFloat of a prompt text: the literal Infinity, a leading run of
\* digits, or NaN
parseFloat(text) ==
    IF text = "Infinity" THEN Infinity ELSE parseInt(Chars(text))

-----------------------------------------------------------------------------
(* Sequences *)

\* Array.prototype.splice(index, 1) on a 0-based index known to be in range,
\* and on one past the end (which removes nothing)
splice(seq, index) ==
    [k \in 1..(Len(seq) - (IF index + 1 \in 1..Len(seq) THEN 1 ELSE 0)) |->
        IF k < index + 1 THEN seq[k] ELSE seq[k + 1]]

\* the members of a set of positions in increasing order
Ascending(S) ==
    [k \in 1..Cardinality(S) |-> CHOOSE i \in S : Cardinality({j \in S : j < i}) = k - 1]

\* the property key of an object, or undefined
Get(obj, key, undefined) == IF key \in DOMAIN obj THEN obj[key] ELSE undefined

\* delete object[key]
DeleteKey(obj, key) == [k \in DOMAIN obj \ {key} |-> obj[k]]

\* object[key] = value
SetKey(obj, key, value) == [k \in DOMAIN obj \cup {key} |-> IF k = key THEN value ELSE obj[k]]

-----------------------------------------------------------------------------
(* Plant *)

\* generateUUID(): the identifier drawn when made identifiers were drawn before.
\* The 72 random bits of an identifier are taken to differ from draw to draw.
generateUUID(made) == made + 1

\* x || ''
OrEmpty(x) == IF x = UNDEF \/ x = NullString THEN "" ELSE x

\* Plant with the phase taken one place too far into PLANT_PHASES
PlantPhaseOffByOne(name, seedDate, id, strain, growMedium, lightCycle, nutrientSchedule, uuid) ==
    [ name             |-> name,
      seedDate         |-> seedDate,
      strain           |-> OrEmpty(strain),
      growMedium       |-> OrEmpty(growMedium),
      lightCycle       |-> OrEmpty(lightCycle),
      nutrientSchedule |-> OrEmpty(nutrientSchedule),
      events           |-> <<>>,
      phase            |-> PLANT_PHASES[2],
      id               |-> IF id = 0 THEN uuid ELSE id,
      heightData       |-> <<>>,
      weightData       |-> <<>> ]

\* new Plant(name, seedDate, id, strain, growMedium, lightCycle, nutrientSchedule);
\* id = 0 stands for a falsy id, uuid for what generateUUID() returns when called
Plant(name, seedDate, id, strain, growMedium, lightCycle, nutrientSchedule, uuid) ==
    [ name             |-> name,
      seedDate         |-> seedDate,
      strain           |-> OrEmpty(strain),
      growMedium       |-> OrEmpty(growMedium),
      lightCycle       |-> OrEmpty(lightCycle),
      nutrientSchedule |-> OrEmpty(nutrientSchedule),
      events           |-> <<>>,
      phase            |-> PLANT_PHASES[1],
      id               |-> IF id = 0 THEN uuid ELSE id,
      heightData       |-> <<>>,
      weightData       |-> <<>> ]

\* Plant.addEvent
addEvent(plant, eventType, date) ==
    [plant EXCEPT !.events = Append(@, [type |-> eventType, date |-> date])]

\* Plant.removeEvent (index 0-based)
removeEvent(plant, index) ==
    IF index >= 0 /\ index < Len(plant.events)
    THEN [plant EXCEPT !.events = splice(@, index)]
    ELSE plant

\* Plant.addHeightMeasurement
addHeightMeasurement(plant, height, date) ==
    [plant EXCEPT !.heightData = Append(@, [height |-> height, date |-> date])]

\* Plant.addWeightMeasurement
addWeightMeasurement(plant, weight, date) ==
    [plant EXCEPT !.weightData = Append(@, [weight |-> weight, date |-> date])]

\* the event type `Phase Changed to ${newPhase}`
PhaseChangedTo(newPhase) ==
    CASE newPhase = "Seedling"   -> "Phase Changed to Seedling"
      [] newPhase = "Mutter"     -> "Phase Changed to Mutter"
      [] newPhase = "Vegetative" -> "Phase Changed to Vegetative"
      [] newPhase = "Flowering"  -> "Phase Changed to Flowering"
      [] newPhase = "Drying"     -> "Phase Changed to Drying"
      [] newPhase = "Curing"     -> "Phase Changed to Curing"
      [] newPhase = "Harvested"  -> "Phase Changed to Harvested"

\* the updatePhase of the older script (js/main.js): the phase alone
updatePhaseSilently(plant, newPhase) == [plant EXCEPT !.phase = newPhase]

\* Plant.updatePhase
updatePhase(plant, newPhase) ==
    addEvent([plant EXCEPT !.phase = newPhase], PhaseChangedTo(newPhase), Today)

-----------------------------------------------------------------------------
(* JSON *)

\* JSON.stringify of a number: a non-finite number becomes null
stringifyNumber(n) == IF n = Infinity THEN NullNumber ELSE n

\* JSON.stringify of one Plant (JSON.parse is the identity on the result):
\* a property whose value is undefined is left out
stringifyPlant(p) ==
    [k \in DOMAIN p \ {f \in {"name", "seedDate"} : p[f] = UNDEF} |->
        CASE k = "heightData" ->
                [i \in 1..Len(p.heightData) |->
                    [p.heightData[i] EXCEPT !.height = stringifyNumber(@)]]
          [] k = "weightData" ->
                [i \in 1..Len(p.weightData) |->
                    [p.weightData[i] EXCEPT !.weight = stringifyNumber(@)]]
          [] OTHER -> p[k]]

\* JSON.stringify(this.plants)
stringifyPlants(ps) == [i \in 1..Len(ps) |-> stringifyPlant(ps[i])]

\* the body of the map callback of loadPlants and of importPlants: the Plant
\* built from one parsed element p (not null)
PlantFromJSON(p, uuid) ==
    LET plant == Plant(Get(p, "name", UNDEF), Get(p, "seedDate", UNDEF), Get(p, "id", 0),
                       Get(p, "strain", UNDEF), Get(p, "growMedium", UNDEF),
                       Get(p, "lightCycle", UNDEF), Get(p, "nutrientSchedule", UNDEF), uuid)
    IN  [plant EXCEPT
            !.events = IF "events" \in DOMAIN p THEN p.events ELSE @,
            !.phase = IF "phase" \in DOMAIN p /\ p.phase # "" THEN p.phase ELSE @,
            !.heightData = IF "heightData" \in DOMAIN p THEN p.heightData ELSE @,
            !.weightData = IF "weightData" \in DOMAIN p THEN p.weightData ELSE @]

\* the body of the map callback of loadArchivedPlants
ArchivedPlantFromJSON(p, uuid) ==
    LET plant == Plant(Get(p, "name", UNDEF), Get(p, "seedDate", UNDEF), Get(p, "id", 0),
                       UNDEF, UNDEF, UNDEF, UNDEF, uuid)
    IN  [plant EXCEPT !.events = IF "events" \in DOMAIN p THEN p.events ELSE @]

\* does building a Plant from p call generateUUID
NeedsUUID(p) == Get(p, "id", 0) = 0

\* the ids of a sequence of plants
Ids(ps) == {ps[i].id : i \in 1..Len(ps)}

RECURSIVE CountEvents(_)
\* the number of events of a sequence of plants
CountEvents(ps) == IF ps = <<>> THEN 0 ELSE Len(ps[1].events) + CountEvents(Tail(ps))

RECURSIVE CountHeights(_)
\* the number of height measurements of a sequence of plants
CountHeights(ps) == IF ps = <<>> THEN 0 ELSE Len(ps[1].heightData) + CountHeights(Tail(ps))

RECURSIVE CountWeights(_)
\* the number of weight measurements of a sequence of plants
CountWeights(ps) == IF ps = <<>> THEN 0 ELSE Len(ps[1].weightData) + CountWeights(Tail(ps))

\* the events and measurements of a sequence of plants
CountData(ps) == CountEvents(ps) + CountHeights(ps) + CountWeights(ps)

RECURSIVE MapPlants(_, _, _)
\* parsed.map(p => ...) over the elements, left to right, with u identifiers
\* produced so far: the Plants built (null where the callback caught an
\* exception, when it catches), whether an exception escaped, and the
\* identifiers produced
MapPlants(items, u, catches) ==
    IF items = <<>> THEN [plants |-> <<>>, threw |-> FALSE, uuids |-> u]
    ELSE IF items[1] = JNull THEN
        IF catches
        THEN MapPlants(Tail(items), u, catches)
        ELSE [plants |-> <<>>, threw |-> TRUE, uuids |-> u]
    ELSE LET u1 == IF NeedsUUID(items[1]) THEN u + 1 ELSE u
             rest == MapPlants(Tail(items), u1, catches)
         IN  [rest EXCEPT !.plants = <<PlantFromJSON(items[1], generateUUID(u))>> \o @]

-----------------------------------------------------------------------------
(* The registry state and the rendered plant list *)

\* the registry, the storage and the page as one record
Registry ==
    [ plants |-> plants, archivedPlants |-> archivedPlants,
      selectedPlants |-> selectedPlants, expandedEvents |-> expandedEvents,
      currentTab |-> currentTab, store |-> store, cards |-> cards,
      uuids |-> uuids, quickCards |-> quickCards,
      optimizedQuickCards |-> optimizedQuickCards, compressed |-> compressed,
      reading |-> reading, navigating |-> navigating,
      quickCardList |-> quickCardList, locale |-> locale, instance |-> instance,
      last |-> last ]

\* what a call returned: a boolean (ok), a count (n), or an exception (threw)
Returned(op, args, ok, n, threw) ==
    [op |-> op, args |-> args, ok |-> ok, n |-> n, threw |-> threw]

\* a handler that returns nothing has run
Handled(s) == [s EXCEPT !.last = Returned("handler", <<>>, FALSE, 0, FALSE)]

\* localStorage.setItem(key, value), value the JSON text of a collection of
\* the page: the cell holds the collection, and no text kept character by
\* character any more
setItem(s, key, value) ==
    [s EXCEPT !.store[key] = value,
              !.compressed = IF key \in DOMAIN @ THEN DeleteKey(@, key) ELSE @]

\* PlantManager.saveSelectedPlants (the stored array is kept as the set of its
\* elements: nothing reads their order)
saveSelectedPlants(s) == setItem(s, "selectedPlants", s.selectedPlants)

\* PlantManager.filterPlantsByPhase, as the positions in this.plants of the
\* Plant objects it returns
filterPlantsByPhase(s, phase) ==
    IF phase = "all"
    THEN Ascending(1..Len(s.plants))
    ELSE Ascending({i \in 1..Len(s.plants) : toLowerCase(s.plants[i].phase) = phase})

\* this.expandedEvents[id] taken as a condition
IsExpanded(s, id) == id \in DOMAIN s.expandedEvents /\ s.expandedEvents[id]

\* PlantManager.renderPlants as the class defines it: one card per plant of
\* the current tab; each card's handlers close over the card's Plant object
\* (pos, its place in this.plants at the time of rendering) and over its index
\* in the rendered list (k - 1); a new card is a drop zone with no drop
\* listener yet
originalRenderPlants(s) ==
    LET shown == filterPlantsByPhase(s, s.currentTab)
    IN  [s EXCEPT !.cards =
            [k \in 1..Len(shown) |->
                [ pos      |-> shown[k],
                  plantId  |-> s.plants[shown[k]].id,
                  selected |-> s.plants[shown[k]].id \in s.selectedPlants,
                  open     |-> IsExpanded(s, s.plants[shown[k]].id),
                  drops    |-> 0 ]]]

\* the default locales a runtime may have: one that puts a lower-case letter
\* before its capital (en-US), one that puts the capital first (da-DK)
Locales == {"en-US", "da-DK"}

\* the place of a label in the order of String.prototype.localeCompare under
\* a locale
LabelRank(label, locales) ==
    CASE label = ""        -> 0
      [] label = "fed"     -> IF locales = "da-DK" THEN 2 ELSE 1
      [] label = "Fed"     -> IF locales = "da-DK" THEN 1 ELSE 2
      [] label = "Watered" -> 3

\* a.localeCompare(b, locales); the page passes no locale, so the runtime's
\* default is taken
localeCompare(a, b, locales) ==
    IF LabelRank(a, locales) < LabelRank(b, locales) THEN -1
    ELSE IF LabelRank(a, locales) > LabelRank(b, locales) THEN 1 ELSE 0

\* the comparison of renderQuickCards' sort: pinned first, then by label
compareQuickCards(a, b, locales) ==
    IF a.pinned /\ ~b.pinned THEN -1
    ELSE IF ~a.pinned /\ b.pinned THEN 1
    ELSE localeCompare(a.label, b.label, locales)

\* the places in this.quickCards of the cards of renderQuickCards' sorted
\* copy, row by row (Array.prototype.sort is stable)
sortedPositions(qs, locales) ==
    LET before(i) == {j \in 1..Len(qs) :
                        \/ compareQuickCards(qs[j], qs[i], locales) < 0
                        \/ compareQuickCards(qs[j], qs[i], locales) = 0 /\ j < i}
    IN  [k \in 1..Len(qs) |-> CHOOSE i \in 1..Len(qs) : Cardinality(before(i)) = k - 1]

\* renderQuickCards' sorted copy of this.quickCards
sortedQuickCards(qs, locales) ==
    [k \in 1..Len(qs) |-> qs[sortedPositions(qs, locales)[k]]]

\* #quick-card-list as the page's markup has it: no row
NoRows == [manager |-> "", rows |-> <<>>]

\* the rows renderQuickCards appends to the emptied list, one per card of the
\* sorted copy: the handlers of a row close over the card, and an unpinned
\* card gets the pin button, a pinned one the unpin button
quickCardRows(manager, qs, locales) ==
    [manager |-> manager,
     rows |-> [k \in 1..Len(qs) |->
                  [pos |-> sortedPositions(qs, locales)[k],
                   pinned |-> sortedQuickCards(qs, locales)[k].pinned]]]

\* QuickCardManager.setupEventListeners: every drop zone gets one more drop
\* listener
setupEventListeners(s) ==
    [s EXCEPT !.cards = [k \in 1..Len(s.cards) |-> [s.cards[k] EXCEPT !.drops = @ + 1]]]

\* QuickCardManager.renderQuickCards: the rows are rebuilt from this.quickCards,
\* then setupEventListeners runs
renderQuickCards(s) ==
    setupEventListeners(
        [s EXCEPT !.quickCardList = quickCardRows("QuickCardManager", s.quickCards, s.locale)])

\* plantManager.renderPlants as the page replaces it once it has loaded: the
\* class's method, then quickCardManager.renderQuickCards()
renderPlants(s) == renderQuickCards(originalRenderPlants(s))

\* PlantManager.updateSelectionUI
updateSelectionUI(s) ==
    saveSelectedPlants(
        [s EXCEPT !.cards =
            [k \in 1..Len(s.cards) |->
                [s.cards[k] EXCEPT !.selected = s.cards[k].plantId \in s.selectedPlants]]])

\* the handlers' "restore expanded state after rendering" block: every panel
\* of a rendered card is shown as the map says, and the map is stored
restoreExpandedState(s) ==
    setItem([s EXCEPT !.cards =
                [k \in 1..Len(s.cards) |->
                    [s.cards[k] EXCEPT !.open =
                        IF s.cards[k].plantId \in DOMAIN s.expandedEvents
                        THEN s.expandedEvents[s.cards[k].plantId] ELSE @]]],
            "expandedEvents", s.expandedEvents)

-----------------------------------------------------------------------------
(* PlantManager methods *)

\* addPlant without the parseDate check
addPlantNoDateCheck(s, name, seedDate, strain, growMedium, lightCycle, nutrientSchedule) ==
    LET args == <<name, seedDate>> IN
    IF name = "" \/ seedDate = "" THEN
        [s EXCEPT !.last = Returned("addPlant", args, FALSE, 0, FALSE)]
    ELSE
        LET newPlant == Plant(name, seedDate, 0, strain, growMedium, lightCycle,
                              nutrientSchedule, generateUUID(s.uuids))
            s1 == [s EXCEPT !.uuids = @ + 1,
                            !.expandedEvents = SetKey(@, newPlant.id, FALSE),
                            !.plants = Append(@, newPlant)]
            s2 == setItem(s1, "plants", stringifyPlants(s1.plants))
            s3 == setItem(s2, "expandedEvents", s2.expandedEvents)
            s4 == renderPlants(s3)
            s5 == IF s4.selectedPlants # {}
                  THEN [s4 EXCEPT !.selectedPlants = @ \cup {newPlant.id}]
                  ELSE s4
        IN  [saveSelectedPlants(s5) EXCEPT
                !.last = Returned("addPlant", args, TRUE, 0, FALSE)]

\* PlantManager.addPlant while localStorage.setItem throws (quota exceeded,
\* storage disabled): the first write is not inside a try, so the call ends
\* there with the exception
addPlantOnFullStorage(s, name, seedDate, strain, growMedium, lightCycle, nutrientSchedule) ==
    LET args == <<name, seedDate>> IN
    IF name = "" \/ seedDate = "" THEN
        [s EXCEPT !.last = Returned("addPlant, storage full", args, FALSE, 0, FALSE)]
    ELSE IF parseDate(seedDate) = <<>> THEN
        [s EXCEPT !.last = Returned("addPlant, storage full", args, FALSE, 0, FALSE)]
    ELSE
        LET newPlant == Plant(name, seedDate, 0, strain, growMedium, lightCycle,
                              nutrientSchedule, generateUUID(s.uuids))
        IN  [s EXCEPT !.uuids = @ + 1,
                      !.expandedEvents = SetKey(@, newPlant.id, FALSE),
                      !.plants = Append(@, newPlant),
                      !.last = Returned("addPlant, storage full", args, FALSE, 0, TRUE)]

\* PlantManager.addPlant
addPlant(s, name, seedDate, strain, growMedium, lightCycle, nutrientSchedule) ==
    LET args == <<name, seedDate>> IN
    IF name = "" \/ seedDate = "" THEN
        [s EXCEPT !.last = Returned("addPlant", args, FALSE, 0, FALSE)]
    ELSE IF parseDate(seedDate) = <<>> THEN
        [s EXCEPT !.last = Returned("addPlant", args, FALSE, 0, FALSE)]
    ELSE
        LET newPlant == Plant(name, seedDate, 0, strain, growMedium, lightCycle,
                              nutrientSchedule, generateUUID(s.uuids))
            s1 == [s EXCEPT !.uuids = @ + 1,
                            !.expandedEvents = SetKey(@, newPlant.id, FALSE),
                            !.plants = Append(@, newPlant)]
            s2 == setItem(s1, "plants", stringifyPlants(s1.plants))
            s3 == setItem(s2, "expandedEvents", s2.expandedEvents)
            s4 == renderPlants(s3)
            s5 == IF s4.selectedPlants # {}
                  THEN [s4 EXCEPT !.selectedPlants = @ \cup {newPlant.id}]
                  ELSE s4
        IN  [saveSelectedPlants(s5) EXCEPT
                !.last = Returned("addPlant", args, TRUE, 0, FALSE)]

\* PlantManager.addEventToSelectedPlants; the call this.addDeselectAllButton()
\* names a method the class does not define, and throws a TypeError
addEventToSelectedPlants(s, eventType, date) ==
    LET args == <<eventType, date>> IN
    IF s.selectedPlants = {} THEN
        [s EXCEPT !.last = Returned("addEventToSelectedPlants", args, FALSE, 0, FALSE)]
    ELSE IF eventType = "" \/ eventType = NullString THEN
        [s EXCEPT !.last = Returned("addEventToSelectedPlants", args, FALSE, 0, FALSE)]
    ELSE IF parseDate(date) = <<>> THEN
        [s EXCEPT !.last = Returned("addEventToSelectedPlants", args, FALSE, 0, FALSE)]
    ELSE
        LET hit == {i \in 1..Len(s.plants) : s.plants[i].id \in s.selectedPlants}
            eventCount == Cardinality(hit)
            s1 == [s EXCEPT !.plants =
                      [i \in 1..Len(s.plants) |->
                          IF i \in hit THEN addEvent(s.plants[i], eventType, date)
                          ELSE s.plants[i]]]
            s2 == renderPlants(setItem(s1, "plants", stringifyPlants(s1.plants)))
        IN  IF eventCount > 1
            THEN [s2 EXCEPT !.last =
                    Returned("addEventToSelectedPlants", args, FALSE, 0, TRUE)]
            ELSE [s2 EXCEPT !.last =
                    Returned("addEventToSelectedPlants", args, FALSE, eventCount, FALSE)]

\* addHeightToSelectedPlants without the parseDate check
addHeightToSelectedPlantsAnyDate(s, height, date) ==
    LET args == <<height, date>> IN
    IF s.selectedPlants = {} THEN
        [s EXCEPT !.last = Returned("addHeightToSelectedPlants", args, FALSE, 0, FALSE)]
    ELSE IF height = NaN \/ height <= 0 THEN
        [s EXCEPT !.last = Returned("addHeightToSelectedPlants", args, FALSE, 0, FALSE)]
    ELSE
        LET hit == {i \in 1..Len(s.plants) : s.plants[i].id \in s.selectedPlants}
            s1 == [s EXCEPT !.plants =
                      [i \in 1..Len(s.plants) |->
                          IF i \in hit THEN addHeightMeasurement(s.plants[i], height, date)
                          ELSE s.plants[i]]]
            s2 == renderPlants(setItem(s1, "plants", stringifyPlants(s1.plants)))
        IN  [s2 EXCEPT !.last =
                Returned("addHeightToSelectedPlants", args, FALSE, Cardinality(hit), FALSE)]

\* PlantManager.addHeightToSelectedPlants (height a number, NaN included)
addHeightToSelectedPlants(s, height, date) ==
    LET args == <<height, date>> IN
    IF s.selectedPlants = {} THEN
        [s EXCEPT !.last = Returned("addHeightToSelectedPlants", args, FALSE, 0, FALSE)]
    ELSE IF height = NaN \/ height <= 0 THEN
        [s EXCEPT !.last = Returned("addHeightToSelectedPlants", args, FALSE, 0, FALSE)]
    ELSE IF parseDate(date) = <<>> THEN
        [s EXCEPT !.last = Returned("addHeightToSelectedPlants", args, FALSE, 0, FALSE)]
    ELSE
        LET hit == {i \in 1..Len(s.plants) : s.plants[i].id \in s.selectedPlants}
            heightCount == Cardinality(hit)
            s1 == [s EXCEPT !.plants =
                      [i \in 1..Len(s.plants) |->
                          IF i \in hit THEN addHeightMeasurement(s.plants[i], height, date)
                          ELSE s.plants[i]]]
            s2 == renderPlants(setItem(s1, "plants", stringifyPlants(s1.plants)))
        IN  [s2 EXCEPT !.last =
                Returned("addHeightToSelectedPlants", args, FALSE, heightCount, FALSE)]

\* PlantManager.addWeightToSelectedPlants (weight a number, NaN included)
addWeightToSelectedPlants(s, weight, date) ==
    LET args == <<weight, date>> IN
    IF s.selectedPlants = {} THEN
        [s EXCEPT !.last = Returned("addWeightToSelectedPlants", args, FALSE, 0, FALSE)]
    ELSE IF weight = NaN \/ weight <= 0 THEN
        [s EXCEPT !.last = Returned("addWeightToSelectedPlants", args, FALSE, 0, FALSE)]
    ELSE IF parseDate(date) = <<>> THEN
        [s EXCEPT !.last = Returned("addWeightToSelectedPlants", args, FALSE, 0, FALSE)]
    ELSE
        LET hit == {i \in 1..Len(s.plants) : s.plants[i].id \in s.selectedPlants}
            weightCount == Cardinality(hit)
            s1 == [s EXCEPT !.plants =
                      [i \in 1..Len(s.plants) |->
                          IF i \in hit THEN addWeightMeasurement(s.plants[i], weight, date)
                          ELSE s.plants[i]]]
            s2 == renderPlants(setItem(s1, "plants", stringifyPlants(s1.plants)))
        IN  [s2 EXCEPT !.last =
                Returned("addWeightToSelectedPlants", args, FALSE, weightCount, FALSE)]

\* exportData of the older script: the document {plants, archivedPlants}
\* built from the two stored texts (getItem(key) || '[]': an empty text
\* counts as the empty array)
exportData(s) ==
    LET parsed(key) == IF key \in DOMAIN s.compressed THEN <<>> ELSE s.store[key]
    IN  [kind |-> "object", plants |-> parsed("plants"),
         archivedPlants |-> parsed("archivedPlants")]

\* JSON.parse in exportData throws a SyntaxError on a text that is no JSON:
\* the texts kept character by character are base64 texts, which it refuses
exportDataThrows(s) ==
    \E key \in {"plants", "archivedPlants"} :
        key \in DOMAIN s.compressed /\ s.store[key] # <<>>

\* PlantManager.exportPlants
exportPlants(s) == [kind |-> "array", items |-> stringifyPlants(s.plants)]

\* an import that also empties the archive, in memory and in the storage
importPlantsOverArchive(s, jsonStr) ==
    IF jsonStr.kind # "array" \/ MapPlants(jsonStr.items, s.uuids, FALSE).threw THEN
        [s EXCEPT !.last = Returned("importPlants", <<jsonStr.kind>>, FALSE, 0, FALSE)]
    ELSE
        LET m == MapPlants(jsonStr.items, s.uuids, FALSE)
            s2 == [s EXCEPT
                      !.uuids = m.uuids,
                      !.plants = m.plants,
                      !.archivedPlants = <<>>,
                      !.expandedEvents =
                          [id \in {m.plants[i].id : i \in 1..Len(m.plants)} |-> FALSE]]
            s3 == setItem(s2, "expandedEvents", s2.expandedEvents)
            s4 == setItem(setItem(s3, "plants", jsonStr.items), "archivedPlants", <<>>)
        IN  [renderPlants(s4) EXCEPT
                !.last = Returned("importPlants", <<jsonStr.kind>>, TRUE, 0, FALSE)]

\* PlantManager.importPlants; jsonStr is a text by what JSON.parse makes of it:
\* kind "invalid" (a SyntaxError), "object" (not an array), or "array" with
\* its elements
importPlants(s, jsonStr) ==
    LET args == <<jsonStr.kind>> IN
    IF jsonStr.kind # "array" THEN
        [s EXCEPT !.last = Returned("importPlants", args, FALSE, 0, FALSE)]
    ELSE
        LET s1 == [s EXCEPT !.expandedEvents = <<>>]
            m == MapPlants(jsonStr.items, s.uuids, FALSE)
        IN  IF m.threw THEN
                [s1 EXCEPT !.uuids = m.uuids,
                           !.last = Returned("importPlants", args, FALSE, 0, FALSE)]
            ELSE
                LET s2 == [s1 EXCEPT
                              !.uuids = m.uuids,
                              !.plants = m.plants,
                              !.expandedEvents =
                                  [id \in {m.plants[i].id : i \in 1..Len(m.plants)} |-> FALSE]]
                    s3 == setItem(s2, "expandedEvents", s2.expandedEvents)
                    s4 == setItem(s3, "plants", jsonStr.items)
                IN  [renderPlants(s4) EXCEPT
                        !.last = Returned("importPlants", args, TRUE, 0, FALSE)]

\* PlantManager.renderArchivedPlants: the rows carry nothing but their index
renderArchivedPlants(s) == s

\* archivePlant keeping in the archive what loadArchivedPlants would rebuild
archivePlantRebuilds(s, index) ==
    IF index >= 0 /\ index < Len(s.plants) THEN
        LET archivedPlant == s.plants[index + 1]
            s1 == [s EXCEPT !.plants = splice(@, index),
                            !.expandedEvents = DeleteKey(@, archivedPlant.id)]
            s2 == setItem(s1, "expandedEvents", s1.expandedEvents)
            s3 == [s2 EXCEPT !.archivedPlants =
                      Append(@, ArchivedPlantFromJSON(stringifyPlant(archivedPlant), 0))]
            s4 == setItem(s3, "plants", stringifyPlants(s3.plants))
            s5 == setItem(s4, "archivedPlants", stringifyPlants(s4.archivedPlants))
        IN  [renderArchivedPlants(renderPlants(s5)) EXCEPT
                !.last = Returned("archivePlant", <<index>>, TRUE, 0, FALSE)]
    ELSE [s EXCEPT !.last = Returned("archivePlant", <<index>>, FALSE, 0, FALSE)]

\* PlantManager.archivePlant while localStorage.setItem throws: the plant has
\* left this.plants and its expand entry is deleted when the first write ends
\* the call
archivePlantOnFullStorage(s, index) ==
    IF index >= 0 /\ index < Len(s.plants) THEN
        [s EXCEPT !.plants = splice(@, index),
                  !.expandedEvents = DeleteKey(@, s.plants[index + 1].id),
                  !.last = Returned("archivePlant, storage full", <<index>>, FALSE, 0, TRUE)]
    ELSE [s EXCEPT !.last = Returned("archivePlant, storage full", <<index>>, FALSE, 0, FALSE)]

\* an archivePlant that checks the upper limit only: splice counts a negative
\* index from the end of the array
archivePlantFromEnd(s, index) ==
    IF index < Len(s.plants) /\ Len(s.plants) + index >= 0 THEN
        LET at == IF index < 0 THEN Len(s.plants) + index ELSE index
            archivedPlant == s.plants[at + 1]
            s1 == [s EXCEPT !.plants = splice(@, at),
                            !.expandedEvents = DeleteKey(@, archivedPlant.id)]
            s2 == setItem(s1, "expandedEvents", s1.expandedEvents)
            s3 == [s2 EXCEPT !.archivedPlants = Append(@, archivedPlant)]
            s4 == setItem(s3, "plants", stringifyPlants(s3.plants))
            s5 == setItem(s4, "archivedPlants", stringifyPlants(s4.archivedPlants))
        IN  [renderArchivedPlants(renderPlants(s5)) EXCEPT
                !.last = Returned("archivePlant", <<index>>, TRUE, 0, FALSE)]
    ELSE [s EXCEPT !.last = Returned("archivePlant", <<index>>, FALSE, 0, FALSE)]

\* PlantManager.archivePlant (index 0-based)
archivePlant(s, index) ==
    IF index >= 0 /\ index < Len(s.plants) THEN
        LET archivedPlant == s.plants[index + 1]
            s1 == [s EXCEPT !.plants = splice(@, index),
                            !.expandedEvents = DeleteKey(@, archivedPlant.id)]
            s2 == setItem(s1, "expandedEvents", s1.expandedEvents)
            s3 == [s2 EXCEPT !.archivedPlants = Append(@, archivedPlant)]
            s4 == setItem(s3, "plants", stringifyPlants(s3.plants))
            s5 == setItem(s4, "archivedPlants", stringifyPlants(s4.archivedPlants))
        IN  [renderArchivedPlants(renderPlants(s5)) EXCEPT
                !.last = Returned("archivePlant", <<index>>, TRUE, 0, FALSE)]
    ELSE [s EXCEPT !.last = Returned("archivePlant", <<index>>, FALSE, 0, FALSE)]

\* PlantManager.unarchivePlant (index 0-based)
unarchivePlant(s, index) ==
    IF index >= 0 /\ index < Len(s.archivedPlants) THEN
        LET unarchivedPlant == s.archivedPlants[index + 1]
            s1 == [s EXCEPT !.archivedPlants = splice(@, index),
                            !.expandedEvents = SetKey(@, unarchivedPlant.id, FALSE)]
            s2 == setItem(s1, "expandedEvents", s1.expandedEvents)
            s3 == [s2 EXCEPT !.plants = Append(@, unarchivedPlant)]
            s4 == setItem(s3, "plants", stringifyPlants(s3.plants))
            s5 == setItem(s4, "archivedPlants", stringifyPlants(s4.archivedPlants))
        IN  [renderArchivedPlants(renderPlants(s5)) EXCEPT
                !.last = Returned("unarchivePlant", <<index>>, TRUE, 0, FALSE)]
    ELSE [s EXCEPT !.last = Returned("unarchivePlant", <<index>>, FALSE, 0, FALSE)]

\* PlantManager.deleteArchivedPlant (index 0-based)
deleteArchivedPlant(s, index) ==
    IF index >= 0 /\ index < Len(s.archivedPlants) THEN
        LET deletedPlant == s.archivedPlants[index + 1]
            s1 == [s EXCEPT !.archivedPlants = splice(@, index),
                            !.expandedEvents = DeleteKey(@, deletedPlant.id)]
            s2 == setItem(s1, "expandedEvents", s1.expandedEvents)
            s3 == setItem(s2, "archivedPlants", stringifyPlants(s2.archivedPlants))
        IN  [renderArchivedPlants(s3) EXCEPT
                !.last = Returned("deleteArchivedPlant", <<index>>, TRUE, 0, FALSE)]
    ELSE [s EXCEPT !.last = Returned("deleteArchivedPlant", <<index>>, FALSE, 0, FALSE)]

-----------------------------------------------------------------------------
(* Quick cards *)

\* new QuickCard(label, inputDetails, icon)
QuickCard(label, inputDetails, icon, uuid) ==
    [ id           |-> uuid,
      label        |-> label,
      inputDetails |-> inputDetails,
      icon         |-> IF icon = UNDEF THEN DefaultIcon ELSE icon,
      pinned       |-> FALSE ]

\* QuickCard.toJSON
toJSON(q) ==
    [ id |-> q.id, label |-> q.label, inputDetails |-> q.inputDetails,
      icon |-> q.icon, pinned |-> q.pinned ]

\* QuickCard.fromJSON
fromJSON(json, uuid) == QuickCard(json.label, json.inputDetails, json.icon, uuid)

\* JSON.stringify(this.quickCards) (JSON.parse is the identity on the result)
stringifyQuickCards(qs) == [i \in 1..Len(qs) |-> toJSON(qs[i])]

\* QuickCardManager.saveQuickCards
saveQuickCards(s) == setItem(s, "quickCards", stringifyQuickCards(s.quickCards))

\* the addQuickCard of the older script (js/quickcards_final.js): any label
\* that is not empty is taken
addQuickCardAnyLabel(s, label, inputDetails, icon) ==
    LET args == <<label, inputDetails>> IN
    IF label = "" \/ inputDetails = "" THEN
        [s EXCEPT !.last = Returned("addQuickCard", args, FALSE, 0, FALSE)]
    ELSE
        LET newQuickCard == QuickCard(label, inputDetails, icon, generateUUID(s.uuids))
            s1 == [s EXCEPT !.uuids = @ + 1, !.quickCards = Append(@, newQuickCard)]
        IN  [renderQuickCards(saveQuickCards(s1)) EXCEPT
                !.last = Returned("addQuickCard", args, TRUE, 0, FALSE)]

\* QuickCardManager.addQuickCard
addQuickCard(s, label, inputDetails, icon) ==
    LET args == <<label, inputDetails>> IN
    IF label = "" \/ inputDetails = "" THEN
        [s EXCEPT !.last = Returned("addQuickCard", args, FALSE, 0, FALSE)]
    ELSE IF \E i \in 1..Len(s.quickCards) : s.quickCards[i].label = label THEN
        [s EXCEPT !.last = Returned("addQuickCard", args, FALSE, 0, FALSE)]
    ELSE
        LET newQuickCard == QuickCard(label, inputDetails, icon, generateUUID(s.uuids))
            s1 == [s EXCEPT !.uuids = @ + 1, !.quickCards = Append(@, newQuickCard)]
        IN  [renderQuickCards(saveQuickCards(s1)) EXCEPT
                !.last = Returned("addQuickCard", args, TRUE, 0, FALSE)]

\* a row's pin and unpin handlers: the row's card, found by its identity
setPinned(s, quickCard, pinned) ==
    LET s1 == [s EXCEPT !.quickCards =
                   [i \in 1..Len(@) |->
                       IF @[i].id = quickCard.id THEN [@[i] EXCEPT !.pinned = pinned] ELSE @[i]]]
    IN  renderQuickCards(saveQuickCards(s1))

\* the delete handler of the older script (js/quickcards_final.js): the row's
\* index in the sorted copy, taken as an index of this.quickCards
deleteQuickCardAtIndex(s, index, quickCard) ==
    renderQuickCards(saveQuickCards([s EXCEPT !.quickCards = splice(@, index)]))

\* a row's delete handler, the confirmation accepted (index: the row's index
\* in the sorted copy, 0-based; quickCard: the row's card)
deleteQuickCard(s, index, quickCard) ==
    renderQuickCards(saveQuickCards(
        [s EXCEPT !.quickCards = SelectSeq(@, LAMBDA card : card.id # quickCard.id)]))

\* the positions in plantManager.plants of the plants with this id
PlantsWithId(s, plantId) == {i \in 1..Len(s.plants) : s.plants[i].id = plantId}

\* plant.events.find(event => event.type === label && event.date === eventDate)
HasEvent(plant, label, eventDate) ==
    \E e \in 1..Len(plant.events) :
        plant.events[e].type = label /\ plant.events[e].date = eventDate

\* a logQuickCardToPlant that adds its event whatever the plant holds
logQuickCardToPlantEveryTime(s, plantId, quickCardData) ==
    LET found == PlantsWithId(s, plantId)
        args == <<plantId, quickCardData.label>>
    IN  IF found = {} THEN
            [s EXCEPT !.last = Returned("logQuickCardToPlant", args, FALSE, 0, FALSE)]
        ELSE
            LET pos == CHOOSE i \in found : \A j \in found : i <= j
                s1 == [s EXCEPT !.plants[pos] = addEvent(@, quickCardData.label, Today)]
                s2 == setItem(s1, "plants", stringifyPlants(s1.plants))
            IN  [renderPlants(s2) EXCEPT
                    !.last = Returned("logQuickCardToPlant", args, TRUE, 1, FALSE)]

\* a logQuickCardToPlant that looks for the plant among the archived plants
\* when the active plants do not hold it
logQuickCardToPlantAnywhere(s, plantId, quickCardData) ==
    LET found == PlantsWithId(s, plantId)
        archived == {i \in 1..Len(s.archivedPlants) : s.archivedPlants[i].id = plantId}
        args == <<plantId, quickCardData.label>>
    IN  IF found = {} /\ archived = {} THEN
            [s EXCEPT !.last = Returned("logQuickCardToPlant", args, FALSE, 0, FALSE)]
        ELSE IF found = {} THEN
            LET pos == CHOOSE i \in archived : \A j \in archived : i <= j
                s1 == [s EXCEPT !.archivedPlants[pos] = addEvent(@, quickCardData.label, Today)]
                s2 == setItem(s1, "archivedPlants", stringifyPlants(s1.archivedPlants))
            IN  [s2 EXCEPT !.last = Returned("logQuickCardToPlant", args, FALSE, 0, FALSE)]
        ELSE
            LET pos == CHOOSE i \in found : \A j \in found : i <= j
            IN  IF HasEvent(s.plants[pos], quickCardData.label, Today) THEN
                    [s EXCEPT !.last = Returned("logQuickCardToPlant", args, TRUE, 0, FALSE)]
                ELSE
                    LET s1 == [s EXCEPT !.plants[pos] = addEvent(@, quickCardData.label, Today)]
                        s2 == setItem(s1, "plants", stringifyPlants(s1.plants))
                    IN  [renderPlants(s2) EXCEPT
                            !.last = Returned("logQuickCardToPlant", args, TRUE, 1, FALSE)]

\* the logQuickCardToPlant of the older script (js/quickcards_final.js): the
\* plants are read from the storage, and the storage alone gets the event
logQuickCardToPlantInStorage(s, plantId, quickCardData) ==
    LET items == s.store.plants
        found == {i \in 1..Len(items) : items[i] # JNull /\ Get(items[i], "id", UNDEF) = plantId}
        args == <<plantId, quickCardData.label>>
    IN  IF found = {} THEN
            [s EXCEPT !.last = Returned("logQuickCardToPlant", args, FALSE, 0, FALSE)]
        ELSE
            LET m == MapPlants(items, s.uuids, FALSE)
                pos == CHOOSE i \in found : \A j \in found : i <= j
                s1 == [s EXCEPT !.plants = m.plants,
                                !.plants[pos] = addEvent(@, quickCardData.label, Today)]
                s2 == setItem(s1, "plants", stringifyPlants(s1.plants))
            IN  [renderPlants(s2) EXCEPT
                    !.last = Returned("logQuickCardToPlant", args, TRUE, 1, FALSE)]

\* QuickCardManager.logQuickCardToPlant; ok: the plant was found; n: the
\* events added
logQuickCardToPlant(s, plantId, quickCardData) ==
    LET found == PlantsWithId(s, plantId)
        args == <<plantId, quickCardData.label>>
    IN  IF found = {} THEN
            [s EXCEPT !.last = Returned("logQuickCardToPlant", args, FALSE, 0, FALSE)]
        ELSE
            LET pos == CHOOSE i \in found : \A j \in found : i <= j
            IN  IF HasEvent(s.plants[pos], quickCardData.label, Today) THEN
                    [s EXCEPT !.last = Returned("logQuickCardToPlant", args, TRUE, 0, FALSE)]
                ELSE
                    LET s1 == [s EXCEPT !.plants[pos] = addEvent(@, quickCardData.label, Today)]
                        s2 == setItem(s1, "plants", stringifyPlants(s1.plants))
                    IN  [renderPlants(s2) EXCEPT
                            !.last = Returned("logQuickCardToPlant", args, TRUE, 1, FALSE)]

\* a drop on a zone: each of the zone's drop listeners calls
\* logQuickCardToPlant with the zone's plant id and the dragged card's data
RECURSIVE handleDrop(_, _, _, _)
handleDrop(s, listeners, plantId, quickCardData) ==
    IF listeners = 0 THEN s
    ELSE handleDrop(logQuickCardToPlant(s, plantId, quickCardData),
                    listeners - 1, plantId, quickCardData)

-----------------------------------------------------------------------------
(* dataUtils *)

\* A text is the sequence of its characters. A JSON value is a record: a
\* number [t |-> "number", v |-> n], a string [t |-> "string", v |-> text], an
\* array [t |-> "array", v |-> values], an object [t |-> "object", v |->
\* sequence of <<key text, value>>], or null
JsonNull == [t |-> "null", v |-> <<>>]

\* a === b for two JSON values, arrays and objects compared by content
JsonEqual(a, b) == a.t = b.t /\ a.v = b.v

\* the characters of the texts the model stores
TextChars ==
    Digits \cup {"\"", ",", ":", "[", "]", "{", "}", "D", "F", "W", "a", "b", "c", "d", "e",
                 "f", "i", "l", "n", "o", "p", "r", "s", "t", "u", "w"}

\* the code of an ASCII character
CharCode(c) ==
    CASE c \in Digits -> 48 + DigitVal(c)
      [] c = "\"" -> 34 [] c = "," -> 44 [] c = ":" -> 58 [] c = "[" -> 91
      [] c = "]" -> 93 [] c = "{" -> 123 [] c = "}" -> 125
      [] c = "D" -> 68 [] c = "F" -> 70 [] c = "W" -> 87
      [] c = "a" -> 97 [] c = "b" -> 98 [] c = "c" -> 99 [] c = "d" -> 100
      [] c = "e" -> 101 [] c = "f" -> 102 [] c = "i" -> 105 [] c = "l" -> 108
      [] c = "n" -> 110 [] c = "o" -> 111 [] c = "p" -> 112 [] c = "r" -> 114
      [] c = "s" -> 115 [] c = "t" -> 116 [] c = "u" -> 117 [] c = "w" -> 119

\* the ASCII character of a code
CharOfCode ==
    [n \in {CharCode(c) : c \in TextChars} |-> CHOOSE c \in TextChars : CharCode(c) = n]
FromCharCode(n) == CharOfCode[n]

\* the four bytes of the notepad sign in UTF-8
NotepadBytes == <<240, 159, 147, 157>>

RECURSIVE Utf8Bytes(_)
\* unescape(encodeURIComponent(text)): the bytes of the text in UTF-8 (the
\* text is taken by halves)
Utf8Bytes(text) ==
    IF text = <<>> THEN <<>>
    ELSE IF Len(text) = 1 THEN
        IF text[1] = NotepadSign THEN NotepadBytes ELSE <<CharCode(text[1])>>
    ELSE LET half == Len(text) \div 2
         IN  Utf8Bytes(SubSeq(text, 1, half)) \o Utf8Bytes(SubSeq(text, half + 1, Len(text)))

RECURSIVE Utf8Text(_)
\* decodeURIComponent(escape(bytes)): the text of bytes in UTF-8, as compress
\* wrote them (taken by halves, cut before a byte that starts a character)
Utf8Text(bytes) ==
    IF bytes = <<>> THEN <<>>
    ELSE IF bytes = NotepadBytes THEN <<NotepadSign>>
    ELSE IF Len(bytes) = 1 THEN <<FromCharCode(bytes[1])>>
    ELSE LET middle == Len(bytes) \div 2 + 1
             starts == {k \in (middle - 3)..(middle + 3) :
                           k \in 2..Len(bytes) /\ bytes[k] \notin 128..191}
             half == CHOOSE k \in starts :
                         \A j \in starts : (k - middle) * (k - middle) <= (j - middle) * (j - middle)
         IN  Utf8Text(SubSeq(bytes, 1, half - 1)) \o Utf8Text(SubSeq(bytes, half, Len(bytes)))

RECURSIVE NumberText(_)
\* String(n) for a natural number
NumberText(n) ==
    IF n < 10 THEN <<CHOOSE c \in Digits : DigitVal(c) = n>>
    ELSE NumberText(n \div 10) \o NumberText(n % 10)

RECURSIVE JSONstringify(_)
\* JSON.stringify(value), without indentation
JSONstringify(value) ==
    LET RECURSIVE JoinValues(_)
        JoinValues(vs) ==
            IF vs = <<>> THEN <<>>
            ELSE IF Len(vs) = 1 THEN JSONstringify(vs[1])
            ELSE JSONstringify(vs[1]) \o <<",">> \o JoinValues(Tail(vs))
        RECURSIVE JoinMembers(_)
        JoinMembers(ms) ==
            IF ms = <<>> THEN <<>>
            ELSE LET m == <<"\"">> \o ms[1][1] \o <<"\"", ":">> \o JSONstringify(ms[1][2])
                 IN  IF Len(ms) = 1 THEN m ELSE m \o <<",">> \o JoinMembers(Tail(ms))
    IN  CASE value.t = "number" -> NumberText(value.v)
          [] value.t = "string" -> <<"\"">> \o value.v \o <<"\"">>
          [] value.t = "boolean" -> IF value.v THEN <<"t","r","u","e">>
                                    ELSE <<"f","a","l","s","e">>
          [] value.t = "array"  -> <<"[">> \o JoinValues(value.v) \o <<"]">>
          [] value.t = "object" -> <<"{">> \o JoinMembers(value.v) \o <<"}">>

\* a parse that failed
NoParse == [ok |-> FALSE, value |-> JsonNull, next |-> 0]

\* a string literal at text[i]: up to the next quote (the texts hold no
\* backslash and no control character)
ParseString(text, i) ==
    LET closing == {j \in (i + 1)..Len(text) : text[j] = "\""}
    IN  IF closing = {} THEN NoParse
        ELSE LET j == CHOOSE j \in closing : \A k \in closing : j <= k
             IN  [ok |-> TRUE, value |-> [t |-> "string", v |-> SubSeq(text, i + 1, j - 1)],
                  next |-> j + 1]

\* a number literal at text[i]: 0, or a digit other than 0 and the digits
\* that follow
ParseNumber(text, i) ==
    LET j == IF text[i] = "0" THEN i
             ELSE CHOOSE j \in i..Len(text) :
                      /\ \A k \in i..j : text[k] \in Digits
                      /\ (j = Len(text) \/ text[j + 1] \notin Digits)
    IN  [ok |-> TRUE, value |-> [t |-> "number", v |-> DecVal(SubSeq(text, i, j))],
         next |-> j + 1]

RECURSIVE ParseValue(_, _)
\* the JSON value that starts at text[i], and the position after it
ParseValue(text, i) ==
    LET RECURSIVE ParseElements(_, _)
        ParseElements(k, acc) ==
            LET e == ParseValue(text, k)
            IN  IF ~e.ok \/ e.next > Len(text) THEN NoParse
                ELSE IF text[e.next] = ","
                     THEN ParseElements(e.next + 1, Append(acc, e.value))
                ELSE IF text[e.next] = "]"
                     THEN [ok |-> TRUE, value |-> [t |-> "array", v |-> Append(acc, e.value)],
                           next |-> e.next + 1]
                ELSE NoParse
        RECURSIVE ParseMembers(_, _)
        ParseMembers(k, acc) ==
            IF k > Len(text) \/ text[k] # "\"" THEN NoParse
            ELSE LET key == ParseString(text, k)
                 IN  IF ~key.ok \/ key.next > Len(text) \/ text[key.next] # ":" THEN NoParse
                     ELSE LET e == ParseValue(text, key.next + 1)
                              ms == Append(acc, <<key.value.v, e.value>>)
                          IN  IF ~e.ok \/ e.next > Len(text) THEN NoParse
                              ELSE IF text[e.next] = ","
                                   THEN ParseMembers(e.next + 1, ms)
                              ELSE IF text[e.next] = "}"
                                   THEN [ok |-> TRUE, value |-> [t |-> "object", v |-> ms],
                                         next |-> e.next + 1]
                              ELSE NoParse
    IN  IF i > Len(text) THEN NoParse
        ELSE IF text[i] = "\"" THEN ParseString(text, i)
        ELSE IF text[i] \in Digits THEN ParseNumber(text, i)
        ELSE IF i + 3 <= Len(text) /\ SubSeq(text, i, i + 3) = <<"t","r","u","e">> THEN
            [ok |-> TRUE, value |-> [t |-> "boolean", v |-> TRUE], next |-> i + 4]
        ELSE IF i + 4 <= Len(text) /\ SubSeq(text, i, i + 4) = <<"f","a","l","s","e">> THEN
            [ok |-> TRUE, value |-> [t |-> "boolean", v |-> FALSE], next |-> i + 5]
        ELSE IF text[i] = "[" THEN
            IF i < Len(text) /\ text[i + 1] = "]"
            THEN [ok |-> TRUE, value |-> [t |-> "array", v |-> <<>>], next |-> i + 2]
            ELSE ParseElements(i + 1, <<>>)
        ELSE IF text[i] = "{" THEN
            IF i < Len(text) /\ text[i + 1] = "}"
            THEN [ok |-> TRUE, value |-> [t |-> "object", v |-> <<>>], next |-> i + 2]
            ELSE ParseMembers(i + 1, <<>>)
        ELSE NoParse

\* JSON.parse(text): ok is FALSE where it throws a SyntaxError
JSONparse(text) ==
    LET r == ParseValue(text, 1)
    IN  IF r.ok /\ r.next = Len(text) + 1 THEN r ELSE NoParse

\* the base64 digit "="
Pad == 64

\* btoa on a sequence of bytes: the base64 digits, as the numbers 0..63 and
\* Pad, four for every three bytes
btoa(bytes) ==
    LET n == Len(bytes)
        byte(i) == IF i <= n THEN bytes[i] ELSE 0
        digit(k) ==
            LET j == 3 * ((k - 1) \div 4)
            IN  CASE (k - 1) % 4 = 0 -> byte(j + 1) \div 4
                  [] (k - 1) % 4 = 1 -> (byte(j + 1) % 4) * 16 + byte(j + 2) \div 16
                  [] (k - 1) % 4 = 2 -> IF j + 2 > n THEN Pad
                                        ELSE (byte(j + 2) % 16) * 4 + byte(j + 3) \div 64
                  [] (k - 1) % 4 = 3 -> IF j + 3 > n THEN Pad ELSE byte(j + 3) % 64
    IN  [k \in 1..(4 * ((n + 2) \div 3)) |-> digit(k)]

\* atob on the base64 digits btoa wrote
atob(digits) ==
    LET pads == Cardinality({k \in 1..Len(digits) : digits[k] = Pad})
        byte(i) ==
            LET j == 4 * ((i - 1) \div 3)
            IN  CASE (i - 1) % 3 = 0 -> digits[j + 1] * 4 + digits[j + 2] \div 16
                  [] (i - 1) % 3 = 1 -> (digits[j + 2] % 16) * 16 + digits[j + 3] \div 4
                  [] (i - 1) % 3 = 2 -> (digits[j + 3] % 4) * 64 + digits[j + 4]
    IN  [i \in 1..(3 * (Len(digits) \div 4) - pads) |-> byte(i)]

\* dataUtils.compress on a text
compress(data) == btoa(Utf8Bytes(data))

\* dataUtils.decompress on a text compress wrote (atob and the decoding do not
\* throw on it): the parsed value where the decoded text parses as JSON, else
\* the decoded text
decompress(data) ==
    LET text == Utf8Text(atob(data))
        parsed == JSONparse(text)
    IN  IF parsed.ok THEN parsed.value ELSE [t |-> "string", v |-> text]

\* localStorage.setItem(key, text), the text kept character by character: the
\* cell of the key holds the text, and compressed names the cells that do
setItemText(s, key, text) ==
    [s EXCEPT !.store[key] = text, !.compressed = SetKey(@, key, text)]

\* does the cell of key hold a text kept character by character
HoldsText(s, key) == key \in DOMAIN s.compressed

\* !localStorage.getItem(key): the cell holds the empty text, or the key is
\* not in the storage (getItem returns null; every reader treats the two
\* alike, and the cell of a key removed is kept as the empty text). The JSON
\* text of a collection is never empty
IsEmptyText(s, key) == HoldsText(s, key) /\ s.store[key] = <<>>

\* what decompress returns for the JSON text of a collection of the page: the
\* text starts with "[" or "{", atob throws on it, and the catch returns the
\* text as it came, a string: "[]" for an empty array, else the text (json)
\* of the collection
decompressCollection(key, value) ==
    IF key \in {"plants", "archivedPlants", "quickCards"} /\ value = <<>>
    THEN [t |-> "string", v |-> <<"[", "]">>]
    ELSE [t |-> "string", json |-> value]

\* dataUtils.optimizedStorage.setItem
optimizedSetItem(s, key, value) ==
    LET stringValue == IF value.t = "string" THEN value.v ELSE JSONstringify(value)
    IN  [setItemText(s, key, compress(stringValue)) EXCEPT
            !.last = Returned("optimizedStorage.setItem", <<key, value>>, FALSE, 0, FALSE)]

\* dataUtils.optimizedStorage.getItem (last.args[2] is what it returns)
optimizedGetItem(s, key) ==
    LET result == IF ~HoldsText(s, key) THEN decompressCollection(key, s.store[key])
                  ELSE IF s.store[key] = <<>> THEN JsonNull
                  ELSE decompress(s.store[key])
    IN  [s EXCEPT !.last = Returned("optimizedStorage.getItem", <<key, result>>, FALSE, 0, FALSE)]

\* dataUtils.optimizedStorage.removeItem: localStorage.removeItem(key)
optimizedRemoveItem(s, key) ==
    [setItemText(s, key, <<>>) EXCEPT
        !.last = Returned("optimizedStorage.removeItem", <<key>>, FALSE, 0, FALSE)]

\* dataUtils.optimizedStorage.clear: localStorage.clear(), no key is left
optimizedClear(s) ==
    [s EXCEPT !.store = [key \in DOMAIN @ |-> <<>>],
              !.compressed = [key \in DOMAIN s.store |-> <<>>],
              !.last = Returned("optimizedStorage.clear", <<>>, FALSE, 0, FALSE)]

\* does a parsed element have a member key
HasMember(q, key) == q.t = "object" /\ \E m \in 1..Len(q.v) : q.v[m][1] = key

\* the parsed value of the member key of an object that has one
MemberValue(q, key) == q.v[CHOOSE m \in 1..Len(q.v) : q.v[m][1] = key][2]

\* q.key of a parsed element: the member's value, undefined without one
Member(q, key) == IF HasMember(q, key) THEN MemberValue(q, key).v ELSE UNDEF

\* the strings the quick cards of the model hold, and the string of a
\* sequence of characters
CardTexts == {"", "a", "b", "fed", "Fed", "Watered", "details", "water", DefaultIcon}
StringOf(chars) == CHOOSE str \in CardTexts : Chars(str) = chars

\* q.key, a member that is a string as the string it is
StringMember(q, key) ==
    IF HasMember(q, key) /\ MemberValue(q, key).t = "string"
    THEN StringOf(Member(q, key))
    ELSE Member(q, key)

\* q.pinned || false, for a member that is a boolean or is missing
PinnedMember(q) ==
    LET key == <<"p","i","n","n","e","d">>
    IN  HasMember(q, key) /\ MemberValue(q, key).t = "boolean" /\ Member(q, key)

\* the map callback of loadQuickCards on the elements of a parsed array
QuickCardsOfParsed(items, made) ==
    [i \in 1..Len(items) |->
        [QuickCard(StringMember(items[i], <<"l","a","b","e","l">>),
                   StringMember(items[i], <<"i","n","p","u","t","D","e","t","a","i","l","s">>),
                   StringMember(items[i], <<"i","c","o","n">>),
                   generateUUID(made + i - 1))
            EXCEPT !.id = Member(items[i], <<"i","d">>),
                   !.pinned = PinnedMember(items[i])]]

\* what JSON.stringify makes of this.quickCards: toJSON of each card, a member
\* whose value is undefined left out
QuickCardsJson(qs) ==
    LET text(x) == IF x = UNDEF THEN [t |-> "undefined", v |-> <<>>]
                   ELSE [t |-> "string", v |-> Chars(x)]
        members(q) ==
            << <<(<<"i","d">>), [t |-> "number", v |-> q.id]>>,
               <<(<<"l","a","b","e","l">>), text(q.label)>>,
               <<(<<"i","n","p","u","t","D","e","t","a","i","l","s">>), text(q.inputDetails)>>,
               <<(<<"i","c","o","n">>), text(q.icon)>>,
               <<(<<"p","i","n","n","e","d">>), [t |-> "boolean", v |-> q.pinned]>> >>
    IN  [t |-> "array",
         v |-> [i \in 1..Len(qs) |->
                   [t |-> "object",
                    v |-> SelectSeq(members(qs[i]), LAMBDA m : m[2].t # "undefined")]]]

\* QuickCardManager.initStorage of js/chartFix.js
initStorageOptimized(s) ==
    IF IsEmptyText(s, "quickCards")
    THEN optimizedSetItem(s, "quickCards", [t |-> "array", v |-> <<>>])
    ELSE s

\* is a value returned by getItem falsy: null, 0 or the empty string
Falsy(value) ==
    \/ value.t = "null"
    \/ value.t = "number" /\ value.v = 0
    \/ value.t = "string" /\ "v" \in DOMAIN value /\ value.v = <<>>
    \/ value.t = "boolean" /\ ~value.v

\* QuickCardManager.renderQuickCards of js/chartFix.js up to its last
\* statement: the list is emptied and gets this manager's rows; the last
\* statement, this.setupEventListeners(), calls a method this class does not
\* have and throws a TypeError before any listener is added
renderQuickCardsOptimized(s) ==
    [s EXCEPT !.quickCardList =
        quickCardRows("QuickCardManagerOptimized", s.optimizedQuickCards, s.locale)]

\* QuickCardManager.loadQuickCards of js/chartFix.js: the value comes from
\* optimizedStorage.getItem. The map over a value that is no array throws a
\* TypeError; the cards of an array are taken and rendered, and renderQuickCards
\* ends with its TypeError. The method catches and logs both, and
\* this.quickCards is what it was when the exception came. last.ok: the cards
\* of an array were taken, last.n their number
loadQuickCardsOptimized(s) ==
    LET storedQuickCards == optimizedGetItem(s, "quickCards").last.args[2]
    IN  IF Falsy(storedQuickCards) \/ storedQuickCards.t # "array" THEN
            [s EXCEPT !.last = Returned("loadQuickCards", <<>>, FALSE, 0, FALSE)]
        ELSE LET loaded == QuickCardsOfParsed(storedQuickCards.v, s.uuids)
             IN  [renderQuickCardsOptimized(
                      [s EXCEPT !.optimizedQuickCards = loaded,
                                !.uuids = @ + Len(loaded)]) EXCEPT
                     !.last = Returned("loadQuickCards", <<>>, TRUE, Len(loaded), FALSE)]

\* new QuickCardManager() of js/chartFix.js: the instance if there is one,
\* else a new object (initStorage, then loadQuickCards) kept as the instance;
\* last.n is the object returned
QuickCardManagerOptimized(s) ==
    IF s.instance.QuickCardManagerOptimized # 0
    THEN [s EXCEPT !.last = Returned("QuickCardManager, optimized", <<>>, FALSE,
                                     s.instance.QuickCardManagerOptimized, FALSE)]
    ELSE [loadQuickCardsOptimized(
              initStorageOptimized([s EXCEPT !.optimizedQuickCards = <<>>])) EXCEPT
             !.instance.QuickCardManagerOptimized = 1,
             !.last = Returned("QuickCardManager, optimized", <<>>, FALSE, 1, FALSE)]

\* QuickCardManager.getInstance of js/chartFix.js
getQuickCardManagerOptimized(s) ==
    IF s.instance.QuickCardManagerOptimized = 0
    THEN QuickCardManagerOptimized(s)
    ELSE [s EXCEPT !.last = Returned("getInstance, optimized", <<>>, FALSE,
                                     s.instance.QuickCardManagerOptimized, FALSE)]

\* QuickCardManager.saveQuickCards of js/chartFix.js
saveQuickCardsOptimized(s) ==
    optimizedSetItem(s, "quickCards", QuickCardsJson(s.optimizedQuickCards))

\* QuickCardManager.addQuickCard of js/chartFix.js: the card is made and
\* pushed and the catalog written through optimizedStorage; renderQuickCards
\* then rebuilds the rows and throws its TypeError out of the method
\* (last.threw), which returns nothing
addQuickCardOptimized(s, label, inputDetails, icon) ==
    LET args == <<label, inputDetails>> IN
    IF label = "" \/ inputDetails = "" THEN
        [s EXCEPT !.last = Returned("addQuickCard, optimized", args, FALSE, 0, FALSE)]
    ELSE IF \E i \in 1..Len(s.optimizedQuickCards) : s.optimizedQuickCards[i].label = label THEN
        [s EXCEPT !.last = Returned("addQuickCard, optimized", args, FALSE, 0, FALSE)]
    ELSE
        LET newQuickCard == QuickCard(label, inputDetails, icon, generateUUID(s.uuids))
            s1 == [s EXCEPT !.uuids = @ + 1,
                            !.optimizedQuickCards = Append(@, newQuickCard)]
        IN  [renderQuickCardsOptimized(saveQuickCardsOptimized(s1)) EXCEPT
                !.last = Returned("addQuickCard, optimized", args, FALSE, 0, TRUE)]

\* the pin and unpin handlers of a row rendered by js/chartFix.js: the row's
\* card is changed and the catalog saved; renderQuickCards then throws out of
\* the handler
setPinnedOptimized(s, quickCard, pinned) ==
    renderQuickCardsOptimized(saveQuickCardsOptimized(
        [s EXCEPT !.optimizedQuickCards =
            [i \in 1..Len(@) |->
                IF @[i].id = quickCard.id THEN [@[i] EXCEPT !.pinned = pinned] ELSE @[i]]]))

\* the delete handler of such a row, the confirmation accepted: the row's
\* index in the sorted copy is taken as an index of this.quickCards
deleteQuickCardOptimized(s, index) ==
    renderQuickCardsOptimized(
        saveQuickCardsOptimized([s EXCEPT !.optimizedQuickCards = splice(@, index)]))

-----------------------------------------------------------------------------
(* PlantManager.editDate (js/main.js) *)

\* PlantManager.parseDate of js/main.js, the copy editDate calls: the
\* segments are read with parseInt, and a year below 1000, a month outside
\* 1..12 and a day below 1 are refused before the Date is made; <<>> for
\* null, else <<the Date>>
parseDateMain(dateStr) ==
    IF dateStr = "" \/ dateStr = NullString \/ dateStr = UNDEF THEN <<>>
    ELSE LET parts == split(Chars(dateStr), "-")
         IN  IF Len(parts) # 3 THEN <<>>
             ELSE LET year == parseInt(parts[1])
                      month == IF parseInt(parts[2]) = NaN THEN NaN ELSE parseInt(parts[2]) - 1
                      day == parseInt(parts[3])
                  IN  IF year = NaN \/ parseInt(parts[2]) = NaN \/ day = NaN THEN <<>>
                      ELSE IF year < 1000 \/ month < 0 \/ month > 11 \/ day < 1 THEN <<>>
                      ELSE LET date == NewDate(year, month, day)
                           IN  IF date.year = year /\ date.month = month /\ date.date = day
                               THEN <<date>>
                               ELSE <<>>

\* what Date.prototype.getTimezoneOffset() may return, in minutes: 0 in a
\* runtime on UTC, -120 in one two hours east of it
TimezoneOffsets == {0, -120}

\* the texts toISOString yields in the model
IsoTexts == {"2024-06-02T00:00:00.000Z", "2024-06-01T22:00:00.000Z"}

\* String(n).padStart(width, '0')
padStart(n, width) ==
    LET text == NumberText(n)
    IN  [i \in 1..(width - Len(text)) |-> "0"] \o text

\* Date.prototype.toISOString of a local midnight: the UTC date and time of
\* day of that instant, which east of UTC falls on the day before
toISOString(date, timezoneOffset) ==
    LET utc == IF timezoneOffset < 0
               THEN NormalizeDate(date.year, date.month, date.date - 1)
               ELSE date
        minutes == IF timezoneOffset < 0 THEN 24 * 60 + timezoneOffset ELSE timezoneOffset
        chars == padStart(utc.year, 4) \o <<"-">> \o padStart(utc.month + 1, 2) \o <<"-">>
                     \o padStart(utc.date, 2) \o <<"T">> \o padStart(minutes \div 60, 2)
                     \o <<":">> \o padStart(minutes % 60, 2)
                     \o <<":", "0", "0", ".", "0", "0", "0", "Z">>
    IN  CHOOSE str \in IsoTexts : Chars(str) = chars

\* PlantManager.editDate(plantId, eventIndex), newDateStr being what the user
\* types at "Enter new date (YYYY-MM-DD):" (NullString: cancelled): the plant
\* is looked for among the active plants, then among the archived ones; the
\* event's date becomes the ISO text of the Date parsed, and the collection
\* that holds the plant is written. The list is not rendered again, and the
\* method returns nothing in every case (it alerts when the selection or the
\* date is refused, and when the date was changed)
editDate(s, plantId, eventIndex, newDateStr, timezoneOffset) ==
    LET found == {i \in 1..Len(s.plants) : s.plants[i].id = plantId}
        archived == {i \in 1..Len(s.archivedPlants) : s.archivedPlants[i].id = plantId}
        pos == IF found # {} THEN CHOOSE i \in found : \A j \in found : i <= j
               ELSE CHOOSE i \in archived : \A j \in archived : i <= j
        events == IF found # {} THEN s.plants[pos].events ELSE s.archivedPlants[pos].events
    IN  IF found = {} /\ archived = {} THEN Handled(s)
        ELSE IF eventIndex < 0 \/ eventIndex >= Len(events) THEN Handled(s)
        ELSE IF newDateStr = NullString \/ newDateStr = "" THEN Handled(s)
        ELSE IF parseDateMain(newDateStr) = <<>> THEN Handled(s)
        ELSE LET newDate == toISOString(parseDateMain(newDateStr)[1], timezoneOffset)
             IN  IF found # {}
                 THEN LET s1 == [s EXCEPT !.plants[pos].events[eventIndex + 1].date = newDate]
                      IN  Handled(setItem(s1, "plants", stringifyPlants(s1.plants)))
                 ELSE LET s1 == [s EXCEPT
                                    !.archivedPlants[pos].events[eventIndex + 1].date = newDate]
                      IN  Handled(setItem(s1, "archivedPlants",
                                          stringifyPlants(s1.archivedPlants)))

-----------------------------------------------------------------------------
(* Start-up *)

\* localStorage after the initStorage of both managers has run on an empty
\* storage
EmptyStore ==
    [plants |-> <<>>, archivedPlants |-> <<>>, expandedEvents |-> <<>>, selectedPlants |-> {},
     quickCards |-> <<>>]

\* PlantManager.initStorage: a key whose cell holds the empty text is written
\* as an empty collection
initStorage(s) ==
    LET init(r, key, empty) == IF IsEmptyText(r, key) THEN setItem(r, key, empty) ELSE r
    IN  init(init(init(init(s, "plants", <<>>), "archivedPlants", <<>>),
                  "expandedEvents", <<>>), "selectedPlants", {})

\* QuickCardManager.initStorage
initStorageQuickCards(s) ==
    IF IsEmptyText(s, "quickCards") THEN setItem(s, "quickCards", <<>>) ELSE s

\* QuickCardManager.loadQuickCards. The texts kept character by character
\* under 'quickCards' are base64 texts, which JSON.parse refuses (their first
\* character is a letter, or the digit 8 before the letter J): the method
\* catches and logs the SyntaxError; an empty text is skipped
loadQuickCards(s) ==
    IF HoldsText(s, "quickCards") THEN s
    ELSE
        LET items == s.store.quickCards
        IN  renderQuickCards(
                [s EXCEPT !.quickCards =
                              [i \in 1..Len(items) |->
                                  [QuickCard(items[i].label, items[i].inputDetails,
                                             items[i].icon, generateUUID(s.uuids + i - 1))
                                      EXCEPT !.id = items[i].id, !.pinned = items[i].pinned]],
                          !.uuids = @ + Len(items)])

\* PlantManager.loadPlants. The texts kept character by character under
\* 'plants' are base64 texts, which JSON.parse refuses: the method catches and
\* logs the SyntaxError, and neither the expand map is read nor the list
\* rendered; an empty text is skipped. A text under 'expandedEvents' is
\* refused the same way and the map left as it is
loadPlants(s) ==
    IF HoldsText(s, "plants") THEN s
    ELSE
        LET m == MapPlants(s.store.plants, s.uuids, TRUE)
            storedExpandedEvents ==
                IF HoldsText(s, "expandedEvents") THEN <<>> ELSE s.store.expandedEvents
        IN  originalRenderPlants([s EXCEPT !.plants = m.plants,
                                   !.uuids = m.uuids,
                                   !.expandedEvents =
                                       [id \in DOMAIN @ \cup DOMAIN storedExpandedEvents |->
                                           IF id \in DOMAIN storedExpandedEvents
                                           THEN storedExpandedEvents[id] ELSE @[id]]])

\* does the map callback of loadArchivedPlants throw on an element: p.name of
\* null is a TypeError, and nothing catches it
HasNull(items) == \E i \in 1..Len(items) : items[i] = JNull

\* does loadArchivedPlants throw: on a null element, and on a text that is not
\* empty, which JSON.parse refuses
loadArchivedPlantsThrows(s) ==
    IF HoldsText(s, "archivedPlants") THEN s.store.archivedPlants # <<>>
    ELSE HasNull(s.store.archivedPlants)

\* PlantManager.loadArchivedPlants: when the callback throws, the assignment
\* to this.archivedPlants and the render never happen
loadArchivedPlants(s) ==
    LET items == s.store.archivedPlants
        made(i) == Cardinality({j \in 1..i : NeedsUUID(items[j])})
    IN  IF HoldsText(s, "archivedPlants") THEN s
        ELSE IF HasNull(items)
        THEN [s EXCEPT !.uuids =
                 @ + made((CHOOSE i \in 1..Len(items) :
                              /\ items[i] = JNull
                              /\ \A j \in 1..(i - 1) : items[j] # JNull) - 1)]
        ELSE renderArchivedPlants(
            [s EXCEPT !.archivedPlants =
                          [i \in 1..Len(items) |->
                              ArchivedPlantFromJSON(items[i], generateUUID(s.uuids + made(i) - 1))],
                      !.uuids = @ + made(Len(items))])

\* PlantManager.loadSelectedPlants
loadSelectedPlants(s) ==
    IF HoldsText(s, "selectedPlants") THEN s
    ELSE updateSelectionUI([s EXCEPT !.selectedPlants = s.store.selectedPlants])

\* a page that has run no script yet: neither static field is set
NoInstances == [PlantManager |-> 0, QuickCardManager |-> 0, QuickCardManagerOptimized |-> 0]

\* a constructor without the instance check: every call makes one more object
\* and fills it from the storage
constructorAnew(s) ==
    LET s0 == initStorage(
                  [s EXCEPT !.plants = <<>>, !.archivedPlants = <<>>, !.selectedPlants = {},
                            !.expandedEvents = <<>>, !.currentTab = "all", !.cards = <<>>])
        made == s.instance.PlantManager + 1
    IN  [loadSelectedPlants(loadArchivedPlants(loadPlants(s0))) EXCEPT
            !.instance.PlantManager = made,
            !.last = Returned("constructor", <<>>, FALSE, made, FALSE)]

\* new PlantManager(): the instance if there is one, else a new object filled
\* from the storage and kept as the instance; last.n is the object returned.
\* An exception of loadArchivedPlants leaves the constructor: the selection is
\* not loaded and no instance is kept
constructor(s) ==
    IF s.instance.PlantManager # 0
    THEN [s EXCEPT !.last = Returned("constructor", <<>>, FALSE,
                                     s.instance.PlantManager, FALSE)]
    ELSE
        LET s0 == initStorage(
                      [s EXCEPT !.plants = <<>>, !.archivedPlants = <<>>, !.selectedPlants = {},
                                !.expandedEvents = <<>>, !.currentTab = "all", !.cards = <<>>])
        IN  IF loadArchivedPlantsThrows(s0)
            THEN [loadArchivedPlants(loadPlants(s0)) EXCEPT
                     !.last = Returned("constructor", <<>>, FALSE, 0, TRUE)]
            ELSE [loadSelectedPlants(loadArchivedPlants(loadPlants(s0))) EXCEPT
                     !.instance.PlantManager = 1,
                     !.last = Returned("constructor", <<>>, FALSE, 1, FALSE)]

\* PlantManager.getInstance
getInstance(s) ==
    IF s.instance.PlantManager = 0
    THEN constructor(s)
    ELSE [s EXCEPT !.last = Returned("getInstance", <<>>, FALSE,
                                     s.instance.PlantManager, FALSE)]

\* new QuickCardManager(): the instance if there is one, else a new object
\* (initStorage, then loadQuickCards)
QuickCardManager(s) ==
    IF s.instance.QuickCardManager # 0
    THEN [s EXCEPT !.last = Returned("QuickCardManager", <<>>, FALSE,
                                     s.instance.QuickCardManager, FALSE)]
    ELSE [loadQuickCards(initStorageQuickCards([s EXCEPT !.quickCards = <<>>])) EXCEPT
             !.instance.QuickCardManager = 1,
             !.last = Returned("QuickCardManager", <<>>, FALSE, 1, FALSE)]

\* QuickCardManager.getInstance
getQuickCardManager(s) ==
    IF s.instance.QuickCardManager = 0
    THEN QuickCardManager(s)
    ELSE [s EXCEPT !.last = Returned("getInstance", <<>>, FALSE,
                                     s.instance.QuickCardManager, FALSE)]

\* the page has loaded: the static fields start undefined, and both
\* DOMContentLoaded handlers have run, the bundled script's (PlantManager,
\* QuickCardManager, setupEventListeners) and the quick cards' own
\* (setupEventListeners again); the handler catches and logs an exception of
\* the PlantManager constructor (last.threw) and goes on with the quick cards.
\* The page that was left is gone, with the FileReader it had started and the
\* navigation it had asked for
DOMContentLoaded(s) ==
    LET s1 == getInstance([s EXCEPT !.instance = NoInstances,
                                    !.optimizedQuickCards = <<>>,
                                    !.quickCardList = NoRows,
                                    !.reading = [kind |-> "none"],
                                    !.navigating = FALSE])
    IN  [setupEventListeners(setupEventListeners(getQuickCardManager(s1))) EXCEPT
            !.last = Returned("constructor", <<>>, FALSE, 0, s1.last.threw)]

-----------------------------------------------------------------------------
(* The inputs the handlers receive *)

NameInputs == {"", "A"}
SeedDateInputs == {"", Today, "2024-02-29", "2024-02-30", "bad-date"}
EventTypeInputs == {"", "Watered"}
EventDateInputs == {Today, "2024-02-30"}
PhaseInputs == {"Seedling", "Vegetative"}
TabInputs == {"all", "vegetative"}
\* what the user types at "Edit plant name:" (NullString: cancelled)
RenameInputs == {NullString, " ", "B "}
\* what the user types at a height or weight prompt
MeasureInputs == {"abc", "0", "12", "Infinity"}
\* the numbers a caller passes as height or weight
MeasureValues == {NaN, 0, 12}
\* what the user types at "Edit event type:" (NullString: cancelled)
EditTypeInputs == {NullString, "Fed"}

\* the texts a caller passes to parseDate, and the seed date field may hold
DateInputs ==
    { "", Today, "2024-02-29", "1999-12-31", "0050-01-01",
      "2023-02-29", "2024-02-30", "2024-13-01", "2024-00-10", "2024-06-00", "bad-date",
      "2024-06", "2024--01", "2024-1-5", " 2024-06-01", "2024-06-1e0" }

\* the label, the details and the icon a caller passes to addQuickCard
\* (UNDEF: no icon passed)
QuickLabelInputs == {"", "fed", "Fed", "Watered"}
QuickDetailsInputs == {"", "details"}
QuickIconInputs == {UNDEF, "water"}
\* the values of the form's icon menu ("": None)
IconOptions == {"", "water"}

\* String.prototype.trim on the rename inputs
trimName(text) ==
    CASE text = " "  -> ""
      [] text = "B " -> "B"
      [] OTHER       -> text

\* the files the user may pick for an import: texts written by hand, and the
\* file the last export wrote
HandWrittenTexts ==
    { [kind |-> "invalid"],
      [kind |-> "object"],
      [kind |-> "array", items |-> <<JNull>>],
      [kind |-> "array", items |-> <<[name |-> "C", seedDate |-> Today]>>],
      [kind |-> "array", items |-> <<[seedDate |-> Today]>>] }

\* the file the last export wrote, when there is one
ExportedTexts == IF exported.kind = "none" THEN {} ELSE {exported}

ImportTexts == HandWrittenTexts \cup ExportedTexts

\* how many identifiers importing a text can make generateUUID produce
UUIDsNeeded(text) ==
    IF text.kind # "array" THEN 0
    ELSE Cardinality({i \in 1..Len(text.items) :
                        text.items[i] # JNull /\ NeedsUUID(text.items[i])})

-----------------------------------------------------------------------------
(* Handlers *)

\* the registry, the storage and the page become s
Becomes(s) ==
    /\ plants' = s.plants
    /\ archivedPlants' = s.archivedPlants
    /\ selectedPlants' = s.selectedPlants
    /\ expandedEvents' = s.expandedEvents
    /\ currentTab' = s.currentTab
    /\ store' = s.store
    /\ cards' = s.cards
    /\ uuids' = s.uuids
    /\ quickCards' = s.quickCards
    /\ optimizedQuickCards' = s.optimizedQuickCards
    /\ compressed' = s.compressed
    /\ reading' = s.reading
    /\ navigating' = s.navigating
    /\ quickCardList' = s.quickCardList
    /\ locale' = s.locale
    /\ instance' = s.instance
    /\ last' = s.last

\* the page loaded for the first time, on an empty storage, in a runtime with
\* this default locale
InitialRegistry(defaultLocale) ==
    DOMContentLoaded([plants |-> <<>>, archivedPlants |-> <<>>, selectedPlants |-> {},
                 expandedEvents |-> <<>>, currentTab |-> "all",
                 store |-> EmptyStore, cards |-> <<>>, uuids |-> 0, quickCards |-> <<>>,
                 optimizedQuickCards |-> <<>>,
                 compressed |-> <<>>, reading |-> [kind |-> "none"],
                 navigating |-> FALSE,
                 quickCardList |-> NoRows, locale |-> defaultLocale,
                 instance |-> NoInstances,
                 last |-> Returned("constructor", <<>>, FALSE, 0, FALSE)])

Init ==
    \E defaultLocale \in Locales :
        LET loaded == InitialRegistry(defaultLocale)
        IN  /\ plants = loaded.plants
            /\ archivedPlants = loaded.archivedPlants
            /\ selectedPlants = loaded.selectedPlants
            /\ expandedEvents = loaded.expandedEvents
            /\ currentTab = loaded.currentTab
            /\ store = loaded.store
            /\ cards = loaded.cards
            /\ uuids = loaded.uuids
            /\ quickCards = loaded.quickCards
            /\ optimizedQuickCards = loaded.optimizedQuickCards
            /\ compressed = loaded.compressed
            /\ reading = loaded.reading
            /\ navigating = loaded.navigating
            /\ quickCardList = loaded.quickCardList
            /\ locale = loaded.locale
            /\ instance = loaded.instance
            /\ last = loaded.last
            /\ exported = [kind |-> "none"]

\* the "Add Plant" button of the form, with the seed date field holding one of
\* seedDates
AddPlantClick(maxPlants, seedDates) ==
    \E name \in NameInputs, seedDate \in seedDates :
        /\ uuids < maxPlants
        /\ Becomes(addPlant(Registry, name, seedDate, "", "", "", ""))
        /\ UNCHANGED exported

\* a click on a plant card: toggle its selection
CardClick ==
    \E k \in 1..Len(cards) :
        LET id == plants[cards[k].pos].id
            s1 == [Registry EXCEPT
                      !.selectedPlants = IF id \in @ THEN @ \ {id} ELSE @ \cup {id},
                      !.cards[k].selected = ~(id \in selectedPlants)]
        IN  /\ Becomes(Handled(updateSelectionUI(saveSelectedPlants(s1))))
            /\ UNCHANGED exported

\* the "Clear selection" button
ClearSelectionClick ==
    /\ LET s1 == [Registry EXCEPT
                     !.selectedPlants = {},
                     !.cards = [k \in 1..Len(cards) |-> [cards[k] EXCEPT !.selected = FALSE]]]
       IN  Becomes(Handled(saveSelectedPlants(s1)))
    /\ UNCHANGED exported

\* a click on a phase tab, the current one included
TabClick ==
    \E phase \in TabInputs :
        /\ Becomes(Handled(renderPlants([Registry EXCEPT !.currentTab = phase])))
        /\ UNCHANGED exported

\* a click on an option of a card's phase menu
PhaseOptionClick ==
    \E k \in 1..Len(cards), phase \in PhaseInputs :
        LET pos == cards[k].pos
            s1 == [Registry EXCEPT !.plants[pos] = updatePhase(@, phase)]
            s2 == setItem(s1, "plants", stringifyPlants(s1.plants))
        IN  /\ CountData(plants) < MaxData
            /\ Becomes(Handled(restoreExpandedState(renderPlants(s2))))
            /\ UNCHANGED exported

\* a card's Delete button, the confirmation accepted
DeleteClick ==
    \E k \in 1..Len(cards) :
        LET index == k - 1
            plant == plants[cards[k].pos]
            s1 == [Registry EXCEPT !.expandedEvents = DeleteKey(@, plant.id)]
            s2 == setItem(s1, "expandedEvents", s1.expandedEvents)
            s3 == [s2 EXCEPT !.plants = splice(@, index)]
            s4 == setItem(s3, "plants", stringifyPlants(s3.plants))
        IN  /\ Becomes(Handled(restoreExpandedState(renderPlants(s4))))
            /\ UNCHANGED exported

\* a card's Archive button: the button carries two click listeners (the one
\* added when it is created and the one added to the card's .archive-btn
\* further down), each calling archivePlant with the card's index
ArchiveClick ==
    \E k \in 1..Len(cards) :
        /\ Becomes(Handled(archivePlant(archivePlant(Registry, k - 1), k - 1)))
        /\ UNCHANGED exported

\* an archived row's Unarchive button
UnarchiveClick(maxActive) ==
    \E i \in 1..Len(archivedPlants) :
        /\ Len(plants) < maxActive
        /\ Becomes(unarchivePlant(Registry, i - 1))
        /\ UNCHANGED exported

\* an archived row's Delete button, the confirmation accepted
DeleteArchivedClick ==
    \E i \in 1..Len(archivedPlants) :
        /\ Becomes(deleteArchivedPlant(Registry, i - 1))
        /\ UNCHANGED exported

\* the "Export" button: plants.json is written
ExportClick ==
    /\ exported' = exportPlants(Registry)
    /\ Becomes(Handled(Registry))

\* unarchivePlant(index) with any index
CallUnarchivePlant ==
    \E index \in -1..Len(archivedPlants) :
        /\ Len(plants) < MaxActive
        /\ Becomes(unarchivePlant(Registry, index))
        /\ UNCHANGED exported

\* deleteArchivedPlant(index) with any index
CallDeleteArchivedPlant ==
    \E index \in -1..Len(archivedPlants) :
        /\ Becomes(deleteArchivedPlant(Registry, index))
        /\ UNCHANGED exported

\* the import button and a file chosen: the change handler starts a
\* FileReader on it and returns (the model follows one read at a time: a file
\* is chosen when no other is being read)
ImportFileChosen(texts, maxIds) ==
    \E text \in texts :
        /\ reading.kind = "none"
        /\ uuids + UUIDsNeeded(text) <= maxIds
        /\ Becomes(Handled([Registry EXCEPT !.reading = text]))
        /\ UNCHANGED exported

\* the FileReader has read the file: its onload handler calls importPlants
ReaderLoaded ==
    /\ reading.kind # "none"
    /\ Becomes([importPlants(Registry, reading) EXCEPT !.reading = [kind |-> "none"]])
    /\ UNCHANGED exported

\* a call of exportData(), its document kept as a file; where a parse throws,
\* the exception leaves the method before the file is made
CallExportData ==
    IF exportDataThrows(Registry) THEN
        /\ Becomes([Registry EXCEPT !.last = Returned("exportData", <<>>, FALSE, 0, TRUE)])
        /\ UNCHANGED exported
    ELSE
        /\ exported' = exportData(Registry)
        /\ Becomes([Registry EXCEPT !.last = Returned("exportData", <<>>, TRUE, 0, FALSE)])

\* the page is loaded again
Reload ==
    /\ Becomes(DOMContentLoaded(Registry))
    /\ UNCHANGED exported

\* the "Add Plant" button while the storage refuses every write
AddPlantClickOnFullStorage ==
    \E name \in NameInputs :
        /\ uuids < MaxFullPlants
        /\ Becomes(addPlantOnFullStorage(Registry, name, Today, "", "", "", ""))
        /\ UNCHANGED exported

\* archivePlant(index) while the storage refuses every write
CallArchivePlantOnFullStorage ==
    \E index \in -1..Len(plants) :
        /\ Becomes(archivePlantOnFullStorage(Registry, index))
        /\ UNCHANGED exported

\* the keys and values a caller passes to dataUtils.optimizedStorage
StorageKeys == {"plants"}
JsonAlphabet == {"1", "[", "]", "a"}
TextsUpTo(n) == UNION {[1..m -> JsonAlphabet] : m \in 0..n}
JsonAtoms ==
    {[t |-> "number", v |-> n] : n \in 0..MaxNumber}
        \cup {[t |-> "string", v |-> text] : text \in TextsUpTo(1)}
JsonValues ==
    {[t |-> "string", v |-> text] : text \in TextsUpTo(MaxTextLen)}
        \cup {[t |-> "number", v |-> n] : n \in 0..MaxNumber}
        \cup {[t |-> "array", v |-> vs] :
                 vs \in UNION {[1..m -> JsonAtoms] : m \in 0..MaxArrayLen}}
        \cup {[t |-> "object", v |-> <<>>]}
        \cup {[t |-> "object", v |-> << <<(<<"a">>), x>> >>] : x \in JsonAtoms}

\* dataUtils.optimizedStorage.setItem(key, value)
CallOptimizedSetItem ==
    \E key \in StorageKeys, value \in JsonValues :
        /\ Becomes(optimizedSetItem(Registry, key, value))
        /\ UNCHANGED exported

\* dataUtils.optimizedStorage.getItem(key)
CallOptimizedGetItem ==
    \E key \in StorageKeys \cup {"quickCards"} :
        /\ Becomes(optimizedGetItem(Registry, key))
        /\ UNCHANGED exported

\* dataUtils.optimizedStorage.removeItem(key), key any key of the page
CallOptimizedRemoveItem ==
    \E key \in DOMAIN store :
        /\ Becomes(optimizedRemoveItem(Registry, key))
        /\ UNCHANGED exported

\* dataUtils.optimizedStorage.clear()
CallOptimizedClear ==
    /\ Becomes(optimizedClear(Registry))
    /\ UNCHANGED exported

\* a script asks for a manager, by the constructor or by getInstance; last.n
\* is the number of the object it receives
InstanceCalls ==
    { "new PlantManager", "PlantManager.getInstance",
      "new QuickCardManager", "QuickCardManager.getInstance" }

CallGetInstance ==
    \E call \in InstanceCalls :
        LET s1 == CASE call = "new PlantManager" -> constructor(Registry)
                    [] call = "PlantManager.getInstance" -> getInstance(Registry)
                    [] call = "new QuickCardManager" -> QuickCardManager(Registry)
                    [] OTHER -> getQuickCardManager(Registry)
        IN  /\ s1.instance.PlantManager <= MaxInstances
            /\ Becomes([s1 EXCEPT !.last.op = call])
            /\ UNCHANGED exported

\* PlantManager.archivePlant called with any index
CallArchivePlant ==
    \E index \in -1..Len(plants) :
        /\ Len(archivedPlants) < MaxArchived
        /\ Becomes(archivePlant(Registry, index))
        /\ UNCHANGED exported

\* plant.updatePhase(newPhase) on a plant of the registry, with one of phases
CallUpdatePhase(phases) ==
    \E pos \in 1..Len(plants), newPhase \in phases :
        /\ CountData(plants) < MaxData
        /\ Becomes([Registry EXCEPT
                       !.plants[pos] = updatePhase(@, newPhase),
                       !.last = Returned("updatePhase", <<pos, newPhase>>, FALSE, 0, FALSE)])
        /\ UNCHANGED exported

\* the calendar's and the toolbar's bulk entry: addEventToSelectedPlants
AddEventToSelected ==
    \E eventType \in EventTypeInputs, date \in EventDateInputs :
        /\ CountData(plants) + Cardinality(selectedPlants \cap Ids(plants)) <= MaxData
        /\ Becomes(addEventToSelectedPlants(Registry, eventType, date))
        /\ UNCHANGED exported

\* the bulk entry for heights: addHeightToSelectedPlants
AddHeightToSelected ==
    \E height \in MeasureValues, date \in EventDateInputs :
        /\ CountData(plants) + Cardinality(selectedPlants \cap Ids(plants)) <= MaxData
        /\ Becomes(addHeightToSelectedPlants(Registry, height, date))
        /\ UNCHANGED exported

\* the bulk entry for weights: addWeightToSelectedPlants
AddWeightToSelected ==
    \E weight \in MeasureValues, date \in EventDateInputs :
        /\ CountData(plants) + Cardinality(selectedPlants \cap Ids(plants)) <= MaxData
        /\ Becomes(addWeightToSelectedPlants(Registry, weight, date))
        /\ UNCHANGED exported

\* a card's "View Events" button: the panel is toggled from what the page
\* shows, and the map follows
ToggleEventsClick ==
    \E k \in 1..Len(cards) :
        LET isExpanded == cards[k].open
            s1 == [Registry EXCEPT
                      !.expandedEvents = SetKey(@, plants[cards[k].pos].id, ~isExpanded),
                      !.cards[k].open = ~isExpanded]
        IN  /\ Becomes(Handled(setItem(s1, "expandedEvents", s1.expandedEvents)))
            /\ UNCHANGED exported

\* a card's edit-name button and what the user types at the prompt
EditNameClick ==
    \E k \in 1..Len(cards), newName \in RenameInputs :
        LET pos == cards[k].pos
            s1 == [Registry EXCEPT !.plants[pos].name = trimName(newName)]
            s2 == setItem(s1, "plants", stringifyPlants(s1.plants))
        IN  /\ IF newName # NullString /\ newName # "" /\ trimName(newName) # ""
               THEN Becomes(Handled(restoreExpandedState(renderPlants(s2))))
               ELSE Becomes(Handled(Registry))
            /\ UNCHANGED exported

\* a card's "Add Event" button with at most one plant selected, or the
\* question about the selected plants declined: the event goes to this plant
AddEventClick ==
    \E k \in 1..Len(cards), eventType \in EventTypeInputs :
        LET pos == cards[k].pos
            s1 == [Registry EXCEPT !.plants[pos] = addEvent(@, eventType, Today)]
            s2 == setItem(s1, "plants", stringifyPlants(s1.plants))
        IN  /\ CountData(plants) < MaxData
            /\ IF eventType # "" /\ eventType # NullString
               THEN Becomes(Handled(restoreExpandedState(renderPlants(s2))))
               ELSE Becomes(Handled(Registry))
            /\ UNCHANGED exported

\* an event row's edit button and what the user types at "Edit event type:"
EditEventClick ==
    \E k \in 1..Len(cards), currentType \in EditTypeInputs :
        \E eventIndex \in 1..Len(plants[cards[k].pos].events) :
            LET pos == cards[k].pos
                s1 == [Registry EXCEPT !.plants[pos].events[eventIndex].type = currentType]
                s2 == setItem(s1, "plants", stringifyPlants(s1.plants))
            IN  /\ Becomes(Handled(restoreExpandedState(renderPlants(s2))))
                /\ UNCHANGED exported

\* what the user types at "Enter new date (YYYY-MM-DD):" (NullString:
\* cancelled)
EditDateInputs == {NullString, "2024-02-30", "2024-06-02"}

\* plantManager.editDate called with any plant id and an event index, in or
\* one past the range (the document's click listener calls it for an element
\* of class edit-date-btn)
CallEditDate ==
    \E plantId \in 1..(uuids + 1), eventIndex \in 0..MaxData,
       newDateStr \in EditDateInputs, timezoneOffset \in TimezoneOffsets :
        /\ Becomes(editDate(Registry, plantId, eventIndex, newDateStr, timezoneOffset))
        /\ UNCHANGED exported

\* an event row's delete button and the answer to the confirm dialog
DeleteEventClick ==
    \E k \in 1..Len(cards), confirmed \in BOOLEAN :
        \E eventIndex \in 1..Len(plants[cards[k].pos].events) :
            LET pos == cards[k].pos
                s1 == [Registry EXCEPT !.plants[pos] = removeEvent(@, eventIndex - 1)]
                s2 == setItem(s1, "plants", stringifyPlants(s1.plants))
            IN  /\ IF confirmed
                   THEN Becomes(Handled(restoreExpandedState(renderPlants(s2))))
                   ELSE Becomes(Handled(Registry))
                /\ UNCHANGED exported

\* a card's "Add Height" button and what the user types at the prompt
AddHeightClick ==
    \E k \in 1..Len(cards), height \in MeasureInputs :
        LET pos == cards[k].pos
            heightNum == parseFloat(height)
            s1 == [Registry EXCEPT !.plants[pos] = addHeightMeasurement(@, heightNum, Today)]
            s2 == setItem(s1, "plants", stringifyPlants(s1.plants))
        IN  /\ CountData(plants) < MaxData
            /\ IF heightNum # NaN /\ heightNum > 0
               THEN Becomes(Handled(renderPlants(s2)))
               ELSE Becomes(Handled(Registry))
            /\ UNCHANGED exported

\* a card's "Add Weight" button and what the user types at the prompt
AddWeightClick ==
    \E k \in 1..Len(cards), weight \in MeasureInputs :
        LET pos == cards[k].pos
            weightNum == parseFloat(weight)
            s1 == [Registry EXCEPT !.plants[pos] = addWeightMeasurement(@, weightNum, Today)]
            s2 == setItem(s1, "plants", stringifyPlants(s1.plants))
        IN  /\ CountData(plants) < MaxData
            /\ IF weightNum # NaN /\ weightNum > 0
               THEN Becomes(Handled(renderPlants(s2)))
               ELSE Becomes(Handled(Registry))
            /\ UNCHANGED exported

\* new Date(year, month, day).toISOString().split('T')[0] for today's cell:
\* the UTC date of local midnight, which is today in the time zones at and
\* west of UTC and the day before in the time zones east of it
LocalMidnightDates == {Today, "2024-05-31"}

\* a click on a day of the calendar (Calendar.selectDay); the day is today.
\* With plants selected the user is asked for an event type, and the event
\* goes to the selected plants; with none selected the user is asked for a
\* plant, by id or else by name (NullString: cancelled), and that plant
\* becomes the selection and the list is rendered
CalendarDayClick ==
    \/ /\ selectedPlants # {}
       /\ \E eventType \in EventTypeInputs, eventDate \in LocalMidnightDates :
             /\ CountData(plants) + Cardinality(selectedPlants \cap Ids(plants)) <= MaxData
             /\ IF eventType # ""
                THEN Becomes(addEventToSelectedPlants(Registry, eventType, eventDate))
                ELSE Becomes(Handled(Registry))
       /\ UNCHANGED exported
    \/ /\ selectedPlants = {}
       /\ \E plantSelection \in 1..(uuids + 1) :
             LET byId == PlantsWithId(Registry, plantSelection)
             IN  IF byId # {}
                 THEN Becomes(Handled(renderPlants(
                          [Registry EXCEPT !.selectedPlants = {plantSelection}])))
                 ELSE Becomes(Handled(Registry))
       /\ UNCHANGED exported
    \/ /\ selectedPlants = {}
       /\ \E plantSelection \in NameInputs \cup {NullString} :
             LET byName == {i \in 1..Len(plants) : plants[i].name = plantSelection}
             IN  IF plantSelection # "" /\ plantSelection # NullString /\ byName # {}
                 THEN Becomes(Handled(renderPlants(
                          [Registry EXCEPT !.selectedPlants =
                              {plants[CHOOSE i \in byName : \A j \in byName : i <= j].id}])))
                 ELSE Becomes(Handled(Registry))
       /\ UNCHANGED exported

\* plantManager.parseDate called with a text; args: the text and what was
\* returned (<<>>: null)
CallParseDate ==
    \E dateStr \in DateInputs :
        /\ Becomes([Registry EXCEPT
                       !.last = Returned("parseDate", <<dateStr, parseDate(dateStr)>>,
                                         parseDate(dateStr) # <<>>, 0, FALSE)])
        /\ UNCHANGED exported

\* quickCardManager.addQuickCard called with one of labels, any details and
\* one of icons
CallAddQuickCard(maxIds, labels, icons) ==
    \E label \in labels, inputDetails \in QuickDetailsInputs, icon \in icons :
        /\ uuids < maxIds
        /\ \A k \in 1..Len(cards) : cards[k].drops < MaxDropListeners
        /\ Becomes(addQuickCard(Registry, label, inputDetails, icon))
        /\ UNCHANGED exported

\* the form of the "Add QuickCard" dialog is submitted (both fields are
\* required by the page): setupModalEventListeners has run twice, so two
\* submit listeners call addQuickCard; after a success the listener calls
\* window.location.reload(), which asks for the navigation and returns
QuickCardSubmit(maxIds) ==
    \E label \in QuickLabelInputs \ {""}, inputDetails \in QuickDetailsInputs \ {""},
       option \in IconOptions :
        LET icon == IF option = "" THEN DefaultIcon ELSE option
            s1 == addQuickCard(Registry, label, inputDetails, icon)
            s2 == addQuickCard(s1, label, inputDetails, icon)
            ok == s1.last.ok \/ s2.last.ok
            s3 == IF ok THEN [s2 EXCEPT !.navigating = TRUE] ELSE s2
        IN  /\ s3.uuids <= maxIds
            /\ \A k \in 1..Len(cards) : cards[k].drops < MaxDropListeners
            /\ Becomes([s3 EXCEPT !.last = Returned("submit", <<label, inputDetails>>, ok, 0, FALSE)])
            /\ UNCHANGED exported

\* the navigation window.location.reload() asked for happens: the page is
\* left and loaded again from the storage
LocationReloads(maxIds) ==
    /\ navigating
    /\ uuids + Len(store.quickCards) <= maxIds
    /\ Becomes(DOMContentLoaded(Registry))
    /\ UNCHANGED exported

\* a click on the pin button of a row of the quick card list
PinClick ==
    \E k \in 1..Len(quickCardList.rows) :
        LET quickCard == quickCards[quickCardList.rows[k].pos]
        IN  /\ quickCardList.manager = "QuickCardManager"
            /\ ~quickCardList.rows[k].pinned
            /\ \A c \in 1..Len(cards) : cards[c].drops < MaxDropListeners
            /\ Becomes([setPinned(Registry, quickCard, TRUE) EXCEPT
                           !.last = Returned("pin", <<k - 1, quickCard.id>>, FALSE, 0, FALSE)])
            /\ UNCHANGED exported

\* a click on the unpin button of a row
UnpinClick ==
    \E k \in 1..Len(quickCardList.rows) :
        LET quickCard == quickCards[quickCardList.rows[k].pos]
        IN  /\ quickCardList.manager = "QuickCardManager"
            /\ quickCardList.rows[k].pinned
            /\ \A c \in 1..Len(cards) : cards[c].drops < MaxDropListeners
            /\ Becomes([setPinned(Registry, quickCard, FALSE) EXCEPT
                           !.last = Returned("unpin", <<k - 1, quickCard.id>>, FALSE, 0, FALSE)])
            /\ UNCHANGED exported

\* a click on the delete button of a row, the confirmation accepted
DeleteQuickCardClick ==
    \E k \in 1..Len(quickCardList.rows) :
        LET quickCard == quickCards[quickCardList.rows[k].pos]
        IN  /\ quickCardList.manager = "QuickCardManager"
            /\ \A c \in 1..Len(cards) : cards[c].drops < MaxDropListeners
            /\ Becomes([deleteQuickCard(Registry, k - 1, quickCard) EXCEPT
                           !.last = Returned("deleteQuickCard", <<k - 1, quickCard.id>>,
                                             FALSE, 0, FALSE)])
            /\ UNCHANGED exported

\* QuickCard.fromJSON(q.toJSON()) for a card q of the catalog; args: q and
\* the card returned
CallFromJSON(maxIds) ==
    \E i \in 1..Len(quickCards) :
        /\ uuids < maxIds
        /\ Becomes([Registry EXCEPT
                       !.uuids = @ + 1,
                       !.last = Returned("fromJSON",
                                         <<quickCards[i],
                                           fromJSON(toJSON(quickCards[i]), generateUUID(uuids))>>,
                                         FALSE, 0, FALSE)])
        /\ UNCHANGED exported

\* a row of the quick card list is dragged and dropped on a plant card
DropQuickCard ==
    \E r \in 1..Len(quickCardList.rows), k \in 1..Len(cards) :
        LET quickCard == IF quickCardList.manager = "QuickCardManager"
                         THEN quickCards[quickCardList.rows[r].pos]
                         ELSE optimizedQuickCards[quickCardList.rows[r].pos]
            zone == cards[k]
            s1 == handleDrop(Registry, zone.drops, zone.plantId, toJSON(quickCard))
        IN  /\ CountData(s1.plants) <= MaxData
            /\ Becomes([s1 EXCEPT !.last = Returned("drop", <<zone.plantId, quickCard.label>>,
                                                    FALSE, zone.drops, FALSE)])
            /\ UNCHANGED exported

\* quickCardManager.logQuickCardToPlant called with any plant id and the data
\* of a card of the catalog
CallLogQuickCardToPlant ==
    \E plantId \in 1..(uuids + 1), i \in 1..Len(quickCards) :
        /\ CountData(logQuickCardToPlant(Registry, plantId, toJSON(quickCards[i])).plants)
               <= MaxData
        /\ Becomes(logQuickCardToPlant(Registry, plantId, toJSON(quickCards[i])))
        /\ UNCHANGED exported

-----------------------------------------------------------------------------
(* Specifications *)

\* the life of the plants: added, selected, shown, archived, restored,
\* deleted, and loaded again from the storage
Next ==
    \/ AddPlantClick(MaxPlants, SeedDateInputs)
    \/ CardClick
    \/ ClearSelectionClick
    \/ ToggleEventsClick
    \/ DeleteClick
    \/ ArchiveClick
    \/ UnarchiveClick(MaxPlants)
    \/ DeleteArchivedClick
    \/ Reload

Spec == Init /\ [][Next]_vars

\* the phase tabs: plants change phase and the list is filtered
NextTabs ==
    \/ AddPlantClick(MaxTabPlants, SeedDateInputs)
    \/ TabClick
    \/ PhaseOptionClick
    \/ EditNameClick
    \/ ToggleEventsClick
    \/ DeleteClick
    \/ ArchiveClick

SpecTabs == Init /\ [][NextTabs]_vars

\* export and import of the active collection
NextImport ==
    \/ AddPlantClick(MaxImportPlants, SeedDateInputs)
    \/ CallArchivePlant
    \/ UnarchiveClick(MaxActive)
    \/ ExportClick
    \/ ImportFileChosen(ImportTexts, MaxImportPlants)
    \/ ReaderLoaded

SpecImport == Init /\ [][NextImport]_vars

\* bulk entry for the selected plants
NextBulk ==
    \/ AddPlantClick(MaxBulkPlants, SeedDateInputs)
    \/ CardClick
    \/ ClearSelectionClick
    \/ CallArchivePlant
    \/ AddEventToSelected

SpecBulk == Init /\ [][NextBulk]_vars

\* the three bulk entries, with and without a selection
NextMeasure ==
    \/ AddPlantClick(MaxMeasurePlants, {Today})
    \/ CardClick
    \/ DeleteClick
    \/ AddEventToSelected
    \/ AddHeightToSelected
    \/ AddWeightToSelected

SpecMeasure == Init /\ [][NextMeasure]_vars

\* the phases of a plant, its events and its measurements
NextPhase ==
    \/ AddPlantClick(MaxPhasePlants, {Today})
    \/ AddEventClick
    \/ AddHeightClick
    \/ AddWeightClick
    \/ PhaseOptionClick
    \/ CallUpdatePhase({PLANT_PHASES[i] : i \in 1..Len(PLANT_PHASES)})

SpecPhase == Init /\ [][NextPhase]_vars

\* dates parsed, and plants added with the seed dates parseDate accepts
NextDate ==
    \/ AddPlantClick(MaxDatePlants, DateInputs)
    \/ CallParseDate

SpecDate == Init /\ [][NextDate]_vars

\* the selection, changed from the cards, the form and the calendar, and
\* loaded again from the storage
NextCalendar ==
    \/ AddPlantClick(MaxCalendarPlants, {Today})
    \/ CardClick
    \/ ClearSelectionClick
    \/ CalendarDayClick
    \/ Reload

SpecCalendar == Init /\ [][NextCalendar]_vars

\* the card handlers that change one plant, the toggle, and the export, archive,
\* import and unarchive that bring an archived plant back next to its copy
NextExpand ==
    \/ AddPlantClick(MaxExpandPlants, {Today})
    \/ ToggleEventsClick
    \/ (/\ CountData(plants) + CountData(archivedPlants) < MaxExpandData
        /\ AddEventClick)
    \/ EditEventClick
    \/ DeleteEventClick
    \/ ExportClick
    \/ CallArchivePlant
    \/ ImportFileChosen(ExportedTexts, MaxExpandPlants)
    \/ ReaderLoaded
    \/ UnarchiveClick(MaxActive)

SpecExpand == Init /\ [][NextExpand]_vars

\* the events of one plant, active or archived: added, their type edited,
\* their date edited
NextEvents ==
    \/ AddPlantClick(MaxEventsPlants, {Today})
    \/ AddEventClick
    \/ EditEventClick
    \/ CallEditDate
    \/ CallArchivePlant

SpecEvents == Init /\ [][NextEvents]_vars

\* one page session: handlers of the page (the tab is kept in memory only),
\* and the scripts that ask for a manager
NextSingleton ==
    \/ AddPlantClick(MaxSingletonPlants, {Today})
    \/ CardClick
    \/ TabClick
    \/ ToggleEventsClick
    \/ CallAddQuickCard(MaxSingletonPlants, {"Fed"}, {UNDEF})
    \/ CallGetInstance

SpecSingleton == Init /\ [][NextSingleton]_vars

\* a page whose storage is full at some of the calls (no handler of a plant
\* card: a call that ended with an exception has not rendered, and the cards
\* on the page are those of an earlier list)
NextFull ==
    \/ AddPlantClick(MaxFullPlants, {Today})
    \/ CallArchivePlant
    \/ UnarchiveClick(MaxActive)
    \/ AddPlantClickOnFullStorage
    \/ CallArchivePlantOnFullStorage

SpecFull == Init /\ [][NextFull]_vars

\* imports next to an archive
NextFrame ==
    \/ AddPlantClick(MaxFramePlants, {Today})
    \/ CallArchivePlant
    \/ ExportClick
    \/ CallExportData
    \/ ImportFileChosen(ImportTexts, MaxFramePlants)
    \/ ReaderLoaded

SpecFrame == Init /\ [][NextFrame]_vars

\* callers of dataUtils.optimizedStorage, on the page, whose managers keep
\* their collections under the same keys
NextStorage ==
    \/ CallOptimizedSetItem
    \/ CallOptimizedGetItem
    \/ CallOptimizedRemoveItem
    \/ CallOptimizedClear
    \/ CallExportData
    \/ AddPlantClick(MaxStoragePlants, {Today})
    \/ Reload

SpecStorage == Init /\ [][NextStorage]_vars

\* handlers of the page while a chosen file is read
NextRead ==
    \/ AddPlantClick(MaxReadPlants, {Today})
    \/ CallArchivePlant
    \/ ExportClick
    \/ ImportFileChosen(ImportTexts, MaxReadPlants)
    \/ ReaderLoaded

SpecRead == Init /\ [][NextRead]_vars

\* callers of the three archive methods, with indexes in and out of range
NextIndex ==
    \/ AddPlantClick(MaxIndexPlants, {Today})
    \/ CardClick
    \/ ToggleEventsClick
    \/ CallArchivePlant
    \/ CallUnarchivePlant
    \/ CallDeleteArchivedPlant

SpecIndex == Init /\ [][NextIndex]_vars

\* ---- generateUUID, character by character ----

HexDigits ==
    <<"0","1","2","3","4","5","6","7","8","9","a","b","c","d","e","f">>

RECURSIVE toString16(_)
\* Number.prototype.toString(16) of an integer from 0 up: the digits of the
\* number and no padding
toString16(n) ==
    IF n < 16 THEN <<HexDigits[n + 1]>>
    ELSE toString16(n \div 16) \o <<HexDigits[(n % 16) + 1]>>

\* b & 0x3f | 0x40 on a byte (& binds tighter than |): the low six bits, and
\* bit 6 set
And3fOr40(b) == (b % 64) + 64

\* b & 0x0f | 0x40 on a byte: the low four bits, and bit 6 set
And0fOr40(b) == (b % 16) + 64

\* b & 0xff on a byte
AndFf(b) == b % 256

\* the branch of generateUUID taken when crypto.getRandomValues exists;
\* randomArray is the Uint8Array the source fills, indexed from 0
generateUUIDCrypto(randomArray) ==
    toString16(And3fOr40(randomArray[0])) \o
    toString16(And0fOr40(randomArray[1])) \o
    toString16(And0fOr40(randomArray[2])) \o
    toString16(And0fOr40(randomArray[3])) \o
    <<"-">> \o
    toString16(And0fOr40(randomArray[4])) \o
    toString16(And3fOr40(randomArray[5])) \o
    <<"-">> \o
    toString16(And0fOr40(randomArray[6])) \o
    toString16(And3fOr40(randomArray[7])) \o
    <<"-">> \o
    toString16(And3fOr40(randomArray[8])) \o
    toString16(And0fOr40(randomArray[9])) \o
    <<"-">> \o
    toString16(And3fOr40(randomArray[10])) \o
    toString16(And0fOr40(randomArray[11])) \o
    toString16(And3fOr40(randomArray[12])) \o
    toString16(AndFf(randomArray[13]))

\* 'xxxxxxxx-xxxx-xxxx-xxxx-xxxxxxx'
UUIDTemplate ==
    <<"x","x","x","x","x","x","x","x","-","x","x","x","x","-",
      "x","x","x","x","-","x","x","x","x","-","x","x","x","x","x","x","x">>

RECURSIVE replaceX(_, _)
\* template.replace(/x/g, y => r.toString(16)): every x becomes the digit of
\* the next draw r = Math.random() * 16 | 0 (y is always 'x')
replaceX(cs, draws) ==
    IF cs = <<>> THEN <<>>
    ELSE IF Head(cs) = "x"
         THEN toString16(Head(draws)) \o replaceX(Tail(cs), Tail(draws))
         ELSE <<Head(cs)>> \o replaceX(Tail(cs), draws)

\* the branch of generateUUID taken without crypto.getRandomValues
generateUUIDFallback(draws) == replaceX(UUIDTemplate, draws)

\* the lengths of the groups between the hyphens
GroupLengths(text) ==
    [i \in 1..Len(split(text, "-")) |-> Len(split(text, "-")[i])]

\* bytes crypto.getRandomValues can deliver: one byte of the array differs
\* from the others
ByteInputs == {0, 15, 16, 255}

RandomArrays ==
    { [i \in 0..15 |-> IF i = k THEN b ELSE c] :
          k \in 0..15, b \in ByteInputs, c \in ByteInputs }

\* values of Math.random() * 16 | 0, one per x of the template
DrawInputs == {0, 9, 10, 15}

RandomDraws ==
    { [i \in 1..27 |-> IF i = k THEN b ELSE c] :
          k \in 1..27, b \in DrawInputs, c \in DrawInputs }

\* generateUUID() on a page with crypto.getRandomValues, on one whose crypto is
\* declared and falsy or has no getRandomValues, and on one where crypto is
\* not declared: there the test of the if throws a ReferenceError and no
\* identifier is returned
CallGenerateUUID ==
    \/ \E randomArray \in RandomArrays :
           /\ Becomes([Registry EXCEPT !.last =
                  Returned("generateUUID", <<"crypto", generateUUIDCrypto(randomArray)>>,
                           TRUE, 0, FALSE)])
           /\ UNCHANGED exported
    \/ \E draws \in RandomDraws :
           /\ Becomes([Registry EXCEPT !.last =
                  Returned("generateUUID", <<"Math.random", generateUUIDFallback(draws)>>,
                           TRUE, 0, FALSE)])
           /\ UNCHANGED exported
    \/ /\ Becomes([Registry EXCEPT !.last =
              Returned("generateUUID", <<"no crypto", <<>>>>, FALSE, 0, TRUE)])
       /\ UNCHANGED exported

NextUUID == CallGenerateUUID

SpecUUID == Init /\ [][NextUUID]_vars

\* ---- archivePlant and unarchivePlant cut short between their writes ----

\* PlantManager.archivePlant when the write of 'archivedPlants' throws, or the
\* page goes away, after the write of 'plants': nothing after that write runs.
\* last.args holds the index and the id of the plant taken out
archivePlantInterrupted(s, index) ==
    IF index >= 0 /\ index < Len(s.plants) THEN
        LET archivedPlant == s.plants[index + 1]
            s1 == [s EXCEPT !.plants = splice(@, index),
                            !.expandedEvents = DeleteKey(@, archivedPlant.id)]
            s2 == setItem(s1, "expandedEvents", s1.expandedEvents)
            s3 == [s2 EXCEPT !.archivedPlants = Append(@, archivedPlant)]
            s4 == setItem(s3, "plants", stringifyPlants(s3.plants))
        IN  [s4 EXCEPT !.last = Returned("archivePlant, interrupted",
                                         <<index, archivedPlant.id>>, FALSE, 0, TRUE)]
    ELSE [s EXCEPT !.last = Returned("archivePlant, interrupted", <<index>>, FALSE, 0, FALSE)]

\* PlantManager.unarchivePlant cut short at the same place
unarchivePlantInterrupted(s, index) ==
    IF index >= 0 /\ index < Len(s.archivedPlants) THEN
        LET unarchivedPlant == s.archivedPlants[index + 1]
            s1 == [s EXCEPT !.archivedPlants = splice(@, index),
                            !.expandedEvents = SetKey(@, unarchivedPlant.id, FALSE)]
            s2 == setItem(s1, "expandedEvents", s1.expandedEvents)
            s3 == [s2 EXCEPT !.plants = Append(@, unarchivedPlant)]
            s4 == setItem(s3, "plants", stringifyPlants(s3.plants))
        IN  [s4 EXCEPT !.last = Returned("unarchivePlant, interrupted",
                                         <<index, unarchivedPlant.id>>, FALSE, 0, TRUE)]
    ELSE [s EXCEPT !.last = Returned("unarchivePlant, interrupted", <<index>>, FALSE, 0, FALSE)]

CallArchivePlantInterrupted ==
    \E index \in -1..Len(plants) :
        /\ Len(archivedPlants) < MaxArchived
        /\ Becomes(archivePlantInterrupted(Registry, index))
        /\ UNCHANGED exported

CallUnarchivePlantInterrupted ==
    \E index \in -1..Len(archivedPlants) :
        /\ Len(plants) < MaxActive
        /\ Becomes(unarchivePlantInterrupted(Registry, index))
        /\ UNCHANGED exported

MaxCrashPlants == 2

NextCrash ==
    \/ AddPlantClick(MaxCrashPlants, {Today})
    \/ CallArchivePlant
    \/ CallUnarchivePlant
    \/ CallArchivePlantInterrupted
    \/ CallUnarchivePlantInterrupted
    \/ Reload

SpecCrash == Init /\ [][NextCrash]_vars

\* plants with a phase and measurements, archived, and the page loaded again
MaxReloadPlants == 1

NextReload ==
    \/ AddPlantClick(MaxReloadPlants, {Today})
    \/ PhaseOptionClick
    \/ AddHeightClick
    \/ CallArchivePlant
    \/ UnarchiveClick(MaxActive)
    \/ Reload

SpecReload == Init /\ [][NextReload]_vars

\* ---- the page opened on a storage written elsewhere ----

MaxStoredLen == 2

\* the elements a stored array may hold: null, and plants as the page writes
\* them
StoredElements ==
    { JNull,
      stringifyPlant(Plant("A", Today, 1, "", "", "", "", 0)),
      stringifyPlant(Plant("B", Today, 2, "", "", "", "", 0)) }

StoredArrays == UNION {[1..n -> StoredElements] : n \in 0..MaxStoredLen}

\* the page is opened on a storage whose 'plants' and 'archivedPlants' hold
\* arrays written by another page or by hand
OpenPageOn ==
    \E storedPlants \in StoredArrays, storedArchived \in StoredArrays :
        /\ Becomes(DOMContentLoaded([Registry EXCEPT
               !.store.plants = storedPlants,
               !.store.archivedPlants = storedArchived]))
        /\ UNCHANGED exported

NextStored == OpenPageOn

SpecStored == Init /\ [][NextStored]_vars

\* ---- the quick cards written by one script and read by another ----

MaxCardLoads == 3

\* the labels and the details passed to addQuickCard there
CardLabelInputs == {"", "fed", "Fed"}

\* addQuickCard of the QuickCardManager of js/chartFix.js is called
CallAddQuickCardOptimized ==
    \E label \in CardLabelInputs, inputDetails \in QuickDetailsInputs :
        /\ instance.QuickCardManagerOptimized # 0
        /\ uuids < MaxCardLoads
        /\ Becomes(addQuickCardOptimized(Registry, label, inputDetails, UNDEF))
        /\ UNCHANGED exported

\* a script asks for the QuickCardManager of js/chartFix.js, by the
\* constructor or by getInstance
NewQuickCardManagerOptimized ==
    \E made \in {QuickCardManagerOptimized(Registry), getQuickCardManagerOptimized(Registry)} :
        /\ made.uuids <= MaxCardLoads
        /\ Becomes(made)
        /\ UNCHANGED exported

\* loadQuickCards() is called on the QuickCardManager of js/chartFix.js
CallLoadQuickCardsOptimized ==
    LET loaded == loadQuickCardsOptimized(Registry)
    IN  /\ instance.QuickCardManagerOptimized # 0
        /\ loaded.uuids <= MaxCardLoads
        /\ Becomes(loaded)
        /\ UNCHANGED exported

\* a click on the pin button of a row rendered by js/chartFix.js (a row the
\* bundled manager rendered has the bundled manager's listeners: PinClick;
\* last.threw: the TypeError of renderQuickCards leaves the handler)
PinClickOptimized ==
    \E k \in 1..Len(quickCardList.rows) :
        LET quickCard == optimizedQuickCards[quickCardList.rows[k].pos]
        IN  /\ quickCardList.manager = "QuickCardManagerOptimized"
            /\ ~quickCardList.rows[k].pinned
            /\ Becomes([setPinnedOptimized(Registry, quickCard, TRUE) EXCEPT
                           !.last = Returned("pin, optimized", <<k - 1, quickCard.id>>,
                                             FALSE, 0, TRUE)])
            /\ UNCHANGED exported

\* a click on the unpin button of such a row
UnpinClickOptimized ==
    \E k \in 1..Len(quickCardList.rows) :
        LET quickCard == optimizedQuickCards[quickCardList.rows[k].pos]
        IN  /\ quickCardList.manager = "QuickCardManagerOptimized"
            /\ quickCardList.rows[k].pinned
            /\ Becomes([setPinnedOptimized(Registry, quickCard, FALSE) EXCEPT
                           !.last = Returned("unpin, optimized", <<k - 1, quickCard.id>>,
                                             FALSE, 0, TRUE)])
            /\ UNCHANGED exported

\* a click on the delete button of such a row, the confirmation accepted
DeleteQuickCardClickOptimized ==
    \E k \in 1..Len(quickCardList.rows) :
        /\ quickCardList.manager = "QuickCardManagerOptimized"
        /\ Becomes([deleteQuickCardOptimized(Registry, k - 1) EXCEPT
                       !.last = Returned("deleteQuickCard, optimized", <<k - 1>>,
                                         FALSE, 0, TRUE)])
        /\ UNCHANGED exported

\* the page of the bundled script is loaded on the cards as they are stored
ReloadOnStoredCards ==
    LET loaded == DOMContentLoaded(Registry)
    IN  /\ loaded.uuids <= MaxCardLoads
        /\ Becomes(loaded)
        /\ UNCHANGED exported

NextCards ==
    \/ CallAddQuickCardOptimized
    \/ CallAddQuickCard(MaxCardLoads, {"fed"}, {UNDEF})
    \/ NewQuickCardManagerOptimized
    \/ CallLoadQuickCardsOptimized
    \/ PinClickOptimized
    \/ UnpinClickOptimized
    \/ DeleteQuickCardClickOptimized
    \/ PinClick
    \/ UnpinClick
    \/ DeleteQuickCardClick
    \/ ReloadOnStoredCards
    \/ CallOptimizedClear

SpecCards == Init /\ [][NextCards]_vars

\* the catalog of quick cards
NextCatalog ==
    \/ CallAddQuickCard(MaxCatalogIds, QuickLabelInputs, QuickIconInputs)
    \/ QuickCardSubmit(MaxCatalogIds)
    \/ LocationReloads(MaxCatalogIds)
    \/ PinClick
    \/ UnpinClick
    \/ DeleteQuickCardClick
    \/ CallFromJSON(MaxCatalogIds)

SpecCatalog == Init /\ [][NextCatalog]_vars

\* quick cards dropped on plants
NextDrop ==
    \/ (Len(plants) + Len(archivedPlants) < MaxDropPlants /\ AddPlantClick(MaxDropIds, {Today}))
    \/ CallAddQuickCard(MaxDropIds, {"Fed", "Watered"}, {UNDEF})
    \/ AddEventClick
    \/ PinClick
    \/ DropQuickCard

SpecDrop == Init /\ [][NextDrop]_vars

\* quick cards applied to plants that are active, archived, deleted or unknown
NextApply ==
    \/ (Len(plants) + Len(archivedPlants) < MaxDropPlants /\ AddPlantClick(MaxDropIds, {Today}))
    \/ CallAddQuickCard(MaxDropIds, {"", "Fed"}, {UNDEF})
    \/ CallUpdatePhase({"Flowering"})
    \/ ArchiveClick
    \/ DeleteClick
    \/ DropQuickCard
    \/ CallLogQuickCardToPlant

SpecApply == Init /\ [][NextApply]_vars

\* archivePlant on an active plant, then unarchivePlant on the row it went to
ArchiveThenUnarchive ==
    \E index \in 0..(Len(plants) - 1) :
        LET s1 == archivePlant(Registry, index)
            s2 == unarchivePlant(s1, Len(s1.archivedPlants) - 1)
        IN  /\ Becomes([s2 EXCEPT !.last = Returned("archiveThenUnarchive", <<index>>,
                                                     s1.last.ok /\ s2.last.ok, 0, FALSE)])
            /\ UNCHANGED exported

\* importPlants on the text exportPlants returns
ExportThenImport ==
    /\ plants # <<>>
    /\ Becomes([importPlants(Registry, exportPlants(Registry)) EXCEPT
                   !.last.op = "exportThenImport"])
    /\ UNCHANGED exported

\* archive and unarchive, export and import, on plants that carry data
NextRoundTrip ==
    \/ AddPlantClick(MaxRoundTripPlants, {Today})
    \/ PhaseOptionClick
    \/ AddHeightClick
    \/ ToggleEventsClick
    \/ CallArchivePlant
    \/ ArchiveThenUnarchive
    \/ ExportThenImport

SpecRoundTrip == Init /\ [][NextRoundTrip]_vars
-----------------------------------------------------------------------------
(* Properties *)


\* C1: every plant id occurs at most once in the union of the active and the
\* archived collection: not in both, and not twice in one
C1_IdsUnique ==
    LET all == plants \o archivedPlants
    IN  \A i, j \in 1..Len(all) : i # j => all[i].id # all[j].id

\* C2: the selection holds only ids of plants in the active collection
C2_SelectionIsActive == selectedPlants \subseteq Ids(plants)

\* C3: the keys of the expanded-events map are the ids of the active collection
C3_ExpandedKeysAreActiveIds == DOMAIN expandedEvents = Ids(plants)

\* C4: the value stored under "plants" is the serialised active collection and
\* the value under "archivedPlants" the serialised archived collection
C4_StoreMatchesMemory ==
    /\ store["plants"] = stringifyPlants(plants)
    /\ store["archivedPlants"] = stringifyPlants(archivedPlants)

\* C5: archivePlant on an active plant followed by unarchivePlant on it puts
\* the plant back among the active plants with every field as it was, leaves it
\* in the archive no more, and leaves its expand entry present and false
C5_ArchiveUnarchiveRestores ==
    [][ last'.op = "archiveThenUnarchive" =>
            LET P == plants[last'.args[1] + 1]
            IN  /\ last'.ok
                /\ Len(plants') = Len(plants)
                /\ \E j \in 1..Len(plants') :
                       /\ plants'[j] = P
                       /\ stringifyPlant(plants'[j]) = stringifyPlant(P)
                /\ Ids(plants') = Ids(plants)
                /\ P.id \notin Ids(archivedPlants')
                /\ archivedPlants' = archivedPlants
                /\ P.id \in DOMAIN expandedEvents'
                /\ expandedEvents'[P.id] = FALSE ]_vars

\* C5 happens: a plant with a phase change and a height went to the archive
\* and came back
C5_Witness ==
    /\ last.op = "archiveThenUnarchive"
    /\ last.ok
    /\ plants # <<>>
    /\ plants[Len(plants)].events # <<>>
    /\ plants[Len(plants)].heightData # <<>>

\* C6: when importPlants returns false, the active and the archived
\* collection, the expanded-events map, the selection and every stored key are
\* as they were before the call
C6_ImportFailsAtomically ==
    [][ (last'.op = "importPlants" /\ ~last'.ok) =>
            UNCHANGED <<plants, archivedPlants, expandedEvents, selectedPlants, store>>
      ]_vars

\* C7: for a non-empty active collection, importPlants(exportPlants()) returns
\* true and leaves the same plants in the same order, by id, name, seedDate,
\* phase, events and height and weight measurements
C7_ExportImportRoundTrip ==
    [][ last'.op = "exportThenImport" =>
            /\ last'.ok
            /\ Len(plants') = Len(plants)
            /\ \A i \in 1..Len(plants) :
                   /\ plants'[i].id = plants[i].id
                   /\ plants'[i].name = plants[i].name
                   /\ plants'[i].seedDate = plants[i].seedDate
                   /\ plants'[i].phase = plants[i].phase
                   /\ plants'[i].events = plants[i].events
                   /\ plants'[i].heightData = plants[i].heightData
                   /\ plants'[i].weightData = plants[i].weightData ]_vars

\* C8: with a non-empty selection, a non-empty type and a valid date,
\* addEventToSelectedPlants appends one event {type, date} to each selected
\* active plant and to no other plant, and returns how many it updated
C8_BulkEventCount ==
    [][ ( /\ last'.op = "addEventToSelectedPlants"
          /\ selectedPlants # {}
          /\ last'.args[1] # ""
          /\ parseDate(last'.args[2]) # <<>> ) =>
            /\ Len(plants') = Len(plants)
            /\ \A i \in 1..Len(plants) :
                   plants'[i] =
                       IF plants[i].id \in selectedPlants
                       THEN [plants[i] EXCEPT !.events =
                                Append(@, [type |-> last'.args[1], date |-> last'.args[2]])]
                       ELSE plants[i]
            /\ archivedPlants' = archivedPlants
            /\ ~last'.threw
            /\ last'.n = Cardinality({i \in 1..Len(plants) : plants[i].id \in selectedPlants})
      ]_vars

\* C9: addPlant with an empty name, an empty seedDate or a seedDate parseDate
\* rejects returns false and changes no plant, no expand entry, no selection
\* and no stored key
C9_AddPlantRejects ==
    [][ ( /\ last'.op = "addPlant"
          /\ \/ last'.args[1] = ""
             \/ last'.args[2] = ""
             \/ parseDate(last'.args[2]) = <<>> ) =>
            /\ ~last'.ok
            /\ UNCHANGED <<plants, archivedPlants, expandedEvents, selectedPlants, store>>
      ]_vars

\* C9 happens: addPlant turned down the 30th of February with plants present
C9_Witness ==
    /\ last.op = "addPlant"
    /\ ~last.ok
    /\ last.args = <<"A", "2024-02-30">>
    /\ plants # <<>>
    /\ store["plants"] = stringifyPlants(plants)

\* C10: addPlant with a valid name and seedDate returns true and adds one
\* plant with a fresh id, that name and seedDate, the first phase, no events
\* and no measurements, and an expand entry of false; the plants there before
\* are unchanged
C10_AddPlantAdds ==
    [][ ( /\ last'.op = "addPlant"
          /\ last'.args[1] # ""
          /\ last'.args[2] # ""
          /\ parseDate(last'.args[2]) # <<>> ) =>
            LET new == plants'[Len(plants')]
            IN  /\ last'.ok
                /\ Len(plants') = Len(plants) + 1
                /\ SubSeq(plants', 1, Len(plants)) = plants
                /\ archivedPlants' = archivedPlants
                /\ new.id \notin Ids(plants) \cup Ids(archivedPlants)
                /\ new.name = last'.args[1]
                /\ new.seedDate = last'.args[2]
                /\ new.phase = PLANT_PHASES[1]
                /\ new.events = <<>>
                /\ new.heightData = <<>>
                /\ new.weightData = <<>>
                /\ new.id \in DOMAIN expandedEvents'
                /\ expandedEvents'[new.id] = FALSE ]_vars

\* C10 happens: addPlant added a plant next to another active one
C10_Witness ==
    /\ last.op = "addPlant"
    /\ last.ok
    /\ Len(plants) >= 2
\* C11: addEventToSelectedPlants, addHeightToSelectedPlants and
\* addWeightToSelectedPlants return 0 and change no plant and no stored key
\* when the selection is empty, the date is one parseDate rejects, the event
\* type is empty, or the height or weight is not a number greater than zero
C11_BulkRejects ==
    [][ ( /\ last'.op \in {"addEventToSelectedPlants", "addHeightToSelectedPlants",
                           "addWeightToSelectedPlants"}
          /\ \/ selectedPlants = {}
             \/ parseDate(last'.args[2]) = <<>>
             \/ last'.op = "addEventToSelectedPlants" /\ last'.args[1] = ""
             \/ /\ last'.op # "addEventToSelectedPlants"
                /\ (last'.args[1] = NaN \/ last'.args[1] <= 0) ) =>
            /\ last'.n = 0
            /\ ~last'.threw
            /\ UNCHANGED <<plants, archivedPlants, store>> ]_vars

\* C11 happens: with plants selected, a bulk call turned down a height of
\* zero, and another the 30th of February
C11_Witness ==
    /\ selectedPlants \cap Ids(plants) # {}
    /\ \/ last.op = "addHeightToSelectedPlants" /\ last.args = <<0, Today>>
       \/ last.op = "addWeightToSelectedPlants" /\ last.args = <<12, "2024-02-30">>
    /\ last.n = 0
\* C12: updatePhase(p) leaves the plant in phase p and appends exactly one
\* event, of type "Phase Changed to p" and dated today, also when p is the
\* phase the plant is in already; no other field of the plant, no other plant
\* and nothing else of the registry changes
C12_UpdatePhaseAppendsOneEvent ==
    [][ last'.op = "updatePhase" =>
          LET pos == last'.args[1]
              p   == last'.args[2]
          IN  /\ Len(plants') = Len(plants)
              /\ plants'[pos].phase = p
              /\ plants'[pos].events =
                     Append(plants[pos].events,
                            [type |-> "Phase Changed to " \o p, date |-> Today])
              /\ [plants'[pos] EXCEPT !.phase = plants[pos].phase,
                                      !.events = plants[pos].events] = plants[pos]
              /\ \A i \in 1..Len(plants) : i # pos => plants'[i] = plants[i]
              /\ UNCHANGED <<archivedPlants, selectedPlants, expandedEvents, store>> ]_vars

\* a plant that was in phase p when updatePhase(p) was called on it:
\* its last two events are both "Phase Changed to p"
C12_Witness ==
    /\ last.op = "updatePhase"
    /\ LET plant == plants[last.args[1]]
           n == Len(plant.events)
       IN  /\ n >= 2
           /\ plant.events[n].type = "Phase Changed to " \o last.args[2]
           /\ plant.events[n - 1].type = plant.events[n].type
           /\ plant.phase = last.args[2]
\* how many events of this type and date the plant holds
EventsOf(plant, type, date) ==
    Cardinality({e \in 1..Len(plant.events) :
                    plant.events[e].type = type /\ plant.events[e].date = date})

\* C13, as amended: a quick card with label L dropped on a plant (each drop
\* listener of the card applies it) appends one event of type L dated today
\* when the plant holds no such event, and leaves the plant's events as they
\* are when it holds one or more; applying the card again adds nothing
C13_DropAddsOnce ==
    [][ last'.op = "drop" =>
          \A pos \in 1..Len(plants) :
              plants[pos].id = last'.args[1] =>
                  /\ Len(plants') = Len(plants)
                  /\ plants'[pos].events =
                         IF EventsOf(plants[pos], last'.args[2], Today) = 0
                         THEN Append(plants[pos].events,
                                     [type |-> last'.args[2], date |-> Today])
                         ELSE plants[pos].events ]_vars

\* a card dropped on a plant card that carried two or more drop listeners,
\* and the plant's only event of that type today is the one the drop added
C13_Witness ==
    /\ last.op = "drop" /\ last.n >= 2
    /\ \E pos \in 1..Len(plants) :
           /\ plants[pos].id = last.args[1]
           /\ plants[pos].events # <<>>
           /\ plants[pos].events[Len(plants[pos].events)] =
                  [type |-> last.args[2], date |-> Today]
           /\ EventsOf(plants[pos], last.args[2], Today) = 1

\* C13, as stated: after a card with label L was dropped on a plant, the plant
\* holds exactly one event of type L dated today
C13_DropLeavesExactlyOne ==
    last.op = "drop" =>
        \A pos \in 1..Len(plants) :
            plants[pos].id = last.args[1] => EventsOf(plants[pos], last.args[2], Today) = 1
\* C14: logQuickCardToPlant called with a plant id that no active plant has
\* (the id of an archived or deleted plant, or an id never given out) changes
\* neither the active nor the archived plants nor any key of the storage
C14_UnknownPlantNoMutation ==
    [][ (last'.op = "logQuickCardToPlant" /\ last'.args[1] \notin Ids(plants)) =>
            /\ ~last'.ok
            /\ UNCHANGED <<plants, archivedPlants, selectedPlants, expandedEvents,
                           quickCards, store>> ]_vars

\* the call was made with the id of an archived plant, whose object and
\* stored copy were there to be changed
C14_Witness ==
    /\ last.op = "logQuickCardToPlant" /\ ~last.ok
    /\ last.args[1] \in Ids(archivedPlants)
    /\ store.archivedPlants # <<>>
\* C15: a drop works on the plants in memory: after it the active plants are
\* the plants as they were in memory before it, with at most one event (the
\* card's label, today) appended to the plant of the drop zone; a change made
\* in memory and not yet stored, such as a phase set by updatePhase, is kept
C15_DropKeepsMemory ==
    [][ last'.op = "drop" =>
          \/ plants' = plants
          \/ \E pos \in 1..Len(plants) :
                /\ plants[pos].id = last'.args[1]
                /\ plants' = [plants EXCEPT ![pos].events =
                                  Append(@, [type |-> last'.args[2], date |-> Today])] ]_vars

\* a card was dropped on a plant whose phase change was in memory only: the
\* plant is in the new phase and holds the phase event and then the card's
C15_Witness ==
    /\ last.op = "drop"
    /\ \E pos \in 1..Len(plants) :
           /\ plants[pos].id = last.args[1]
           /\ plants[pos].phase = "Flowering"
           /\ plants[pos].events =
                  << [type |-> "Phase Changed to Flowering", date |-> Today],
                     [type |-> last.args[2], date |-> Today] >>
           /\ store.plants[pos].phase = "Flowering"
\* C16: whatever cards are added, deleted, pinned and unpinned, no two cards
\* of the catalog have the same label (labels that differ in case only are
\* different); and addQuickCard called with a label some card has, with an
\* empty label or with empty details returns false and leaves the catalog and
\* the stored quickCards as they were
C16_LabelsUnique ==
    [][ /\ \A i, j \in 1..Len(quickCards') :
              i # j => quickCards'[i].label # quickCards'[j].label
        /\ ( /\ last'.op = "addQuickCard"
             /\ \/ last'.args[1] = ""
                \/ last'.args[2] = ""
                \/ \E i \in 1..Len(quickCards) : quickCards[i].label = last'.args[1] ) =>
                /\ ~last'.ok
                /\ UNCHANGED <<quickCards, store>> ]_vars

\* addQuickCard was refused for a label that a card of the catalog has, with
\* "fed" and "Fed" both in the catalog
C16_Witness ==
    /\ last.op = "addQuickCard" /\ ~last.ok
    /\ last.args[1] # "" /\ last.args[2] # ""
    /\ \E i \in 1..Len(quickCards) : quickCards[i].label = last.args[1]
    /\ \E i, j \in 1..Len(quickCards) :
           quickCards[i].label = "fed" /\ quickCards[j].label = "Fed"
    /\ store.quickCards = stringifyQuickCards(quickCards)
\* C17: the delete button of a row removes the card of that row and no other,
\* whatever the order of the rows (pinned first, then by label) and of the
\* catalog: the other cards stay, unchanged and in their order, and the stored
\* quickCards are the new catalog
C17_DeleteRemovesTheRow ==
    [][ last'.op = "deleteQuickCard" =>
          LET id == last'.args[2]
              kept == {i \in 1..Len(quickCards) : quickCards[i].id # id}
          IN  /\ Cardinality(kept) = Len(quickCards) - 1
              /\ Len(quickCards') = Len(quickCards) - 1
              /\ \A i \in kept :
                    quickCards'[Cardinality({j \in kept : j <= i})] = quickCards[i]
              /\ store'.quickCards = quickCards' ]_vars

\* the first row was deleted, and its card was not the first of the catalog:
\* an older card is still there, and a pinned card too
C17_Witness ==
    /\ last.op = "deleteQuickCard" /\ last.args[1] = 0
    /\ Len(quickCards) = 2
    /\ quickCards[1].id < last.args[2]
    /\ \E i \in 1..Len(quickCards) : quickCards[i].pinned
\* C18: for a quick card q, QuickCard.fromJSON(q.toJSON()) is a card with the
\* id, label, inputDetails, icon and pinned of q
C18_FromJSONRoundTrip ==
    last.op = "fromJSON" =>
        LET q == last.args[1]
            r == last.args[2]
        IN  /\ r.id = q.id
            /\ r.label = q.label
            /\ r.inputDetails = q.inputDetails
            /\ r.icon = q.icon
            /\ r.pinned = q.pinned
\* the dates of the calendar among the texts parseDate is called with, with
\* their year, month and day
CalendarDates ==
    { <<"2024-06-01", 2024, 6, 1>>, <<"2024-02-29", 2024, 2, 29>>,
      <<"1999-12-31", 1999, 12, 31>>, <<"0050-01-01", 50, 1, 1>> }

\* the three-segment numeric texts that are no date of the calendar, and
\* "bad-date"
NoCalendarDates ==
    {"2024-02-30", "2024-13-01", "2023-02-29", "2024-00-10", "2024-06-00", "bad-date"}

\* C19: parseDate returns null for a three-segment numeric text that is no
\* date of the calendar ("2024-02-30", "2024-13-01", "2023-02-29", month 0,
\* day 0) and for "bad-date", and returns a date with the text's year, month
\* and day for every date of the calendar, "2024-02-29" included
C19_ParseDateCalendar ==
    last.op = "parseDate" =>
        /\ last.args[1] \in NoCalendarDates => last.args[2] = <<>>
        /\ \A c \in CalendarDates :
              c[1] = last.args[1] =>
                  /\ last.args[2] # <<>>
                  /\ last.args[2][1].year = c[2]
                  /\ last.args[2][1].month + 1 = c[3]
                  /\ last.args[2][1].date = c[4]

\* a text is a four-digit year, a two-digit month and a two-digit day with a
\* hyphen between them
IsYYYYMMDD(str) ==
    LET cs == Chars(str)
    IN  /\ Len(cs) = 10
        /\ cs[5] = "-" /\ cs[8] = "-"
        /\ \A i \in {1, 2, 3, 4, 6, 7, 9, 10} : cs[i] \in Digits

\* C20: parseDate returns null for every text that is not exactly YYYY-MM-DD:
\* a wrong number of segments, an empty or non-numeric segment, segments
\* that are not padded, that have blanks around them or that are written in
\* another notation of numbers
C20_ParseDateStrict ==
    (last.op = "parseDate" /\ ~IsYYYYMMDD(last.args[1])) => last.args[2] = <<>>
\* C21: after an operation that renders the plant list again, the cards with
\* the "selected" marker are the cards whose plant id is in the selection,
\* the card of a plant that addPlant added to a selection included
C21_MarkedCardsAreSelected ==
    \A k \in 1..Len(cards) : cards[k].selected <=> cards[k].plantId \in selectedPlants
\* C22: after an operation that changes the selection (a click on a card,
\* the clear button, addPlant into a selection, the choice of a plant at the
\* calendar) the array stored as selectedPlants holds the ids of the
\* selection in memory
C22_SelectionIsStored ==
    store.selectedPlants = selectedPlants

\* C23: after every card handler that changed a plant or the expand map (a
\* mutation of one plant that re-renders, or a toggle) every rendered card's
\* events panel is shown exactly when the expand map holds true for its plant id
C23_PanelsFollowExpandedEvents ==
    [][(/\ last'.op = "handler"
        /\ (plants' # plants \/ expandedEvents' # expandedEvents))
       => \A k \in 1..Len(cards') :
              cards'[k].open <=> (/\ cards'[k].plantId \in DOMAIN expandedEvents'
                                  /\ expandedEvents'[cards'[k].plantId])]_vars

\* C24: on a loaded page every new PlantManager(), PlantManager.getInstance(),
\* new QuickCardManager() and QuickCardManager.getInstance() returns the object
\* the static field already held, and changes neither the collections, the
\* selection, the expand map, the quick cards, the rendered cards nor the
\* storage
C24_OneInstance ==
    [][last'.op \in InstanceCalls =>
          /\ instance' = instance
          /\ last'.n = (IF last'.op \in {"new PlantManager", "PlantManager.getInstance"}
                        THEN instance.PlantManager ELSE instance.QuickCardManager)
          /\ UNCHANGED <<plants, archivedPlants, selectedPlants, expandedEvents,
                         currentTab, quickCards, cards, store, uuids>>]_vars

\* a script asked for the PlantManager while a tab other than the one a new
\* object starts with was shown and a plant was selected
C24_Witness ==
    /\ last.op = "new PlantManager"
    /\ currentTab # "all"
    /\ selectedPlants # {}
    /\ quickCards # <<>>

\* C25: an addPlant with valid fields, or an archivePlant with an index in
\* range, that runs while the storage refuses every write does not end with
\* an exception
C25_WriteFailureIsCaught ==
    last.op \in {"addPlant, storage full", "archivePlant, storage full"} => ~last.threw

\* C26: an importPlants that returns true leaves the archived collection and
\* the stored archivedPlants as they were
C26_ImportKeepsArchive ==
    [][(last'.op = "importPlants" /\ last'.ok)
       => /\ archivedPlants' = archivedPlants
          /\ store'.archivedPlants = store.archivedPlants]_vars

\* an import of a top-level array succeeded while a plant was archived
C26_Witness ==
    /\ last.op = "importPlants"
    /\ last.ok
    /\ archivedPlants # <<>>
    /\ plants # <<>>

\* C27: importPlants on the document {plants, archivedPlants} that exportData
\* writes returns true
C27_ExportDataIsAccepted ==
    [][(/\ reading.kind = "object"
        /\ "plants" \in DOMAIN reading
        /\ last'.op = "importPlants")
       => last'.ok]_vars

\* C28: optimizedStorage.getItem(k) right after optimizedStorage.setItem(k, v)
\* returns a value equal to v
C28_GetItemReturnsWhatWasSet ==
    [][(/\ last.op = "optimizedStorage.setItem"
        /\ last'.op = "optimizedStorage.getItem"
        /\ last'.args[1] = last.args[1])
       => JsonEqual(last'.args[2], last.args[2])]_vars

\* C29: from the moment a chosen file is being read until its onload handler
\* has run, no handler changes the active or the archived collection
C29_NoMutationWhileReading ==
    [][(reading.kind # "none" /\ reading'.kind # "none")
       => /\ plants' = plants
          /\ archivedPlants' = archivedPlants]_vars

\* C30: archivePlant with an index below 0 or not below the number of active
\* plants, and unarchivePlant and deleteArchivedPlant with an index below 0 or
\* not below the number of archived plants, return false and leave the two
\* collections, the expand map, the selection and the storage as they were
C30_OutOfRangeIsNoOp ==
    [][(/\ last'.op \in {"archivePlant", "unarchivePlant", "deleteArchivedPlant"}
        /\ \/ last'.args[1] < 0
           \/ last'.args[1] >= (IF last'.op = "archivePlant"
                                THEN Len(plants) ELSE Len(archivedPlants)))
       => /\ ~last'.ok
          /\ UNCHANGED <<plants, archivedPlants, expandedEvents, selectedPlants,
                         store, cards>>]_vars

\* an index one past the end reached deleteArchivedPlant while plants were
\* archived and active and a plant was selected
C30_Witness ==
    /\ last.op = "deleteArchivedPlant"
    /\ last.args = <<Len(archivedPlants)>>
    /\ archivedPlants # <<>>
    /\ plants # <<>>
    /\ selectedPlants # {}

\* C31: the identifiers generateUUID produces have one shape: any two calls,
\* with or without crypto.getRandomValues and whatever the random values, give
\* five groups of lowercase hexadecimal digits with the same group lengths
C31_OneShape ==
    [][(/\ last.op = "generateUUID" /\ ~last.threw
        /\ last'.op = "generateUUID" /\ ~last'.threw)
       => /\ Len(GroupLengths(last'.args[2])) = 5
          /\ \A i \in 1..Len(last'.args[2]) :
                 \/ last'.args[2][i] = "-"
                 \/ \E d \in 1..16 : last'.args[2][i] = HexDigits[d]
          /\ GroupLengths(last'.args[2]) = GroupLengths(last.args[2])]_vars

\* C32: when archivePlant or unarchivePlant is cut short between its write of
\* 'plants' and its write of 'archivedPlants', the page loaded next holds the
\* moved plant in exactly one of the two collections, and no id in both
C32_InterruptedMoveKeepsOneMembership ==
    [][(/\ last.op \in {"archivePlant, interrupted", "unarchivePlant, interrupted"}
        /\ last.threw
        /\ last'.op = "constructor")
       => /\ Ids(plants') \cap Ids(archivedPlants') = {}
          /\ last.args[2] \in Ids(plants') \cup Ids(archivedPlants')]_vars

\* C33: a click on a card's Archive button (the handler step after which the
\* archive is longer) moves exactly one plant from the active collection to
\* the archive, and every other active plant stays active
C33_ArchiveClickMovesOnePlant ==
    [][(last'.op = "handler" /\ Len(archivedPlants') > Len(archivedPlants))
       => /\ Len(archivedPlants') = Len(archivedPlants) + 1
          /\ Len(plants') = Len(plants) - 1]_vars

\* C34: under every tab, a click on a card's Archive or Delete button (the
\* handler step after which fewer plants are active) removes only plants that
\* a rendered card showed, and the expandedEvents entries removed are those of
\* the plants removed
C34_CardActionsRemoveTheCardsPlant ==
    [][(last'.op = "handler" /\ Len(plants') < Len(plants))
       => /\ Ids(plants) \ Ids(plants') \subseteq {cards[k].plantId : k \in 1..Len(cards)}
          /\ Ids(plants) \ Ids(plants')
                 = (DOMAIN expandedEvents) \ (DOMAIN expandedEvents')]_vars

\* C35: the page loaded again holds the archived plants it held before, each
\* with the same id, name, seedDate, strain, growMedium, lightCycle,
\* nutrientSchedule, phase, events and as many height and weight measurements
C35_ReloadKeepsArchivedPlants ==
    [][last'.op = "constructor"
       => /\ Len(archivedPlants') = Len(archivedPlants)
          /\ \A i \in 1..Len(archivedPlants) :
                 /\ archivedPlants'[i].id = archivedPlants[i].id
                 /\ archivedPlants'[i].name = archivedPlants[i].name
                 /\ archivedPlants'[i].seedDate = archivedPlants[i].seedDate
                 /\ archivedPlants'[i].strain = archivedPlants[i].strain
                 /\ archivedPlants'[i].growMedium = archivedPlants[i].growMedium
                 /\ archivedPlants'[i].lightCycle = archivedPlants[i].lightCycle
                 /\ archivedPlants'[i].nutrientSchedule = archivedPlants[i].nutrientSchedule
                 /\ archivedPlants'[i].phase = archivedPlants[i].phase
                 /\ archivedPlants'[i].events = archivedPlants[i].events
                 /\ Len(archivedPlants'[i].heightData) = Len(archivedPlants[i].heightData)
                 /\ Len(archivedPlants'[i].weightData) = Len(archivedPlants[i].weightData)]_vars

\* the ids of the elements of a stored array that are not null, in order
NotNull(p) == p # JNull
StoredIds(items) ==
    [i \in 1..Len(SelectSeq(items, NotNull)) |-> SelectSeq(items, NotNull)[i].id]

\* C36: on every stored 'plants' and 'archivedPlants' array, with null
\* elements or without, the construction of the registry ends without an
\* exception, and each loaded collection holds the well-formed elements of its
\* stored array in their order
C36_LoadSkipsMalformedElements ==
    last.op = "constructor"
        => /\ ~last.threw
           /\ [i \in 1..Len(plants) |-> plants[i].id] = StoredIds(store.plants)
           /\ [i \in 1..Len(archivedPlants) |-> archivedPlants[i].id]
                  = StoredIds(store.archivedPlants)

\* C37: every event of every active and every archived plant has a type that
\* is a non-empty string (not null, not undefined) and a date of the form
\* YYYY-MM-DD, whatever handlers have added and edited events
C37_EventsHaveTypeAndDate ==
    \A i \in 1..Len(plants \o archivedPlants) :
        \A e \in 1..Len((plants \o archivedPlants)[i].events) :
            /\ (plants \o archivedPlants)[i].events[e].type \notin {"", NullString, UNDEF}
            /\ IsYYYYMMDD((plants \o archivedPlants)[i].events[e].date)

\* C38: whatever renders, quick-card renders and page loads have happened,
\* every rendered plant card carries exactly one drop listener, so that a drop
\* calls logQuickCardToPlant once
C38_OneDropListenerPerCard ==
    \A k \in 1..Len(cards) : cards[k].drops = 1

\* C39: when the QuickCardManager of js/chartFix.js loads the cards (it is
\* made, or its loadQuickCards is called) right after a manager wrote its
\* catalog under 'quickCards', compressed by optimizedStorage.setItem (the
\* save of js/chartFix.js) or as JSON text by localStorage.setItem (the save
\* of the bundled script), it holds every card written, in order
C39_LoadsCardsOfBothWriters ==
    [][(/\ \/ last.op = "addQuickCard" /\ last.ok
           \/ /\ last.op \in {"addQuickCard, optimized", "pin, optimized",
                               "unpin, optimized", "deleteQuickCard, optimized"}
              /\ last.threw
        /\ \/ last'.op = "loadQuickCards"
           \/ /\ last'.op \in {"QuickCardManager, optimized", "getInstance, optimized"}
              /\ instance.QuickCardManagerOptimized = 0)
       => LET written == IF last.op = "addQuickCard" THEN quickCards
                         ELSE optimizedQuickCards
          IN  /\ Len(optimizedQuickCards') = Len(written)
              /\ \A i \in 1..Len(written) :
                     /\ optimizedQuickCards'[i].id = written[i].id
                     /\ optimizedQuickCards'[i].label = written[i].label]_vars

====
